---------------------------- MODULE Spec2Model ----------------------------
(***************************************************************************)
(* Model of the inside-secure (SafeXcel EIP97/EIP197) descriptor-ring      *)
(* engine: the command/result descriptor rings (safexcel_ring.c), the      *)
(* dequeue engine safexcel_dequeue and the completion engine               *)
(* safexcel_handle_result_descriptor with the ahash send/handle_result     *)
(* callbacks (safexcel_hash.c).                                            *)
(*                                                                         *)
(* Pointers are integers (byte addresses); ERR_PTR(-E) is the negative     *)
(* integer -E, and NULL is 0.  Request handles are the integers 1..NReq.   *)
(***************************************************************************)
EXTENDS Integers, Sequences, FiniteSets, TLC

(***************************************************************************)
(* Bounds of the model.                                                    *)
(***************************************************************************)
\* priv->config.ring_entries: slots per ring (module parameter / autoconfig)
ring_entries == 4
\* priv->config.cd_offset, rd_offset: slot strides in bytes (from the bus width)
cd_offset == 2
rd_offset == 3
\* addresses dmam_alloc_coherent returned for the two rings
cdr_base_addr == 10
rdr_base_addr == 40
\* priv->config.queue_entries: max_qlen of the ring's admission queue
queue_entries == 1
\* requests submitted in one run
NReq == 2
\* scatterlist entries of one request's source buffer
MaxSg == 1
\* exceptional events in one run: a request submitted with needs_inv set or
\* as a teardown invalidation, a DMA mapping failure, a result the device
\* reports with a nonzero error code, an error interrupt
MaxEvents == 1
\* results whose ownership word the device has not written yet
MaxOwnLag == 1
\* reservations, less rollbacks, one ring gets when its primitives are called
\* in any order: two laps and one more
MaxAdv == 9
\* requests admitted in the scenario of a ring that fills up: one more than
\* the ring has slots
ScenReqs == 5
\* the largest error code a result descriptor is given: 15 bits
MaxErrorCode == 32767
\* the rings configured are 1..MaxRings
MaxRings == 3
\* requests submitted in the specification of several rings
MaxSelReq == 3
\* the most packets a pass of the interrupt thread acknowledges in ProcSpec
MaxHandled == 300
\* the calls of setkey on the session in InvSpec
MaxSetkey == 2

(***************************************************************************)
(* Program constants.                                                      *)
(***************************************************************************)
ENOMEM == 12
ENOENT == 2
EINVAL == 22
EIO == 5
EBADMSG == 74
EINPROGRESS == 115
ENOSPC == 28
EBUSY == 16
EIP197_xDR_PROC_xD_PKT_MASK == 127
EIP197_OWN_POLL_COUNT == 10
\* 0xAAAAAAAA: the ownership word is kept as one of its two equal 16-bit
\* halves (0xAAAA), TLC's integers being 32-bit signed
EIP197_OWNERSHIP_MAGIC == 43690
EIP197_MAX_BATCH_SZ == 65535

NULL == 0

\* ~x on (one 16-bit half of) a u32
NOT32(x) == 65535 - x

IS_ERR(p) == p < 0

VARIABLES
  cdr, rdr,            \* struct safexcel_desc_ring of the ring context
  cd_mem, rd_mem,      \* the descriptor slots of the two rings, by address
  hw,                  \* the device: its registers and its ring cursors
  last,                \* the last ring primitive called and what it returned
  cdr_held, rdr_held,  \* slots reserved and neither rolled back nor read
  poll,                \* a safexcel_rdr_next_rptr call in progress
  fresh,               \* result slots the device has written and nobody read
  priv_ring,           \* struct safexcel_ring: priv->ring[ring] without cdr, rdr
  work_pending,        \* priv->ring[ring].work_data.work is queued
  dq,                  \* safexcel_dequeue: where it is, and its locals
  hd,                  \* safexcel_handle_result_descriptor: the same
  rq,                  \* the requests: what they ask for, what happened to them
  gh,                  \* how many requests and exceptional events the run has had,
                       \* the requests holding a result slot, oldest first,
                       \* and the requests admitted and not sent yet, in
                       \* the order of their admission
  hist,                \* per ring: the slots held, oldest first, and the
                       \* reservations made and not rolled back since Init
  priv,                \* struct safexcel_crypto_priv: ring_used, config.rings
                       \* and, of every ring, its queue and what it has in
                       \* flight; the session's exit_inv; the requests' flags
  sel                  \* the calls of safexcel_select_ring and the sends to
                       \* the device so far, in order; the requests' fate

ringVars == <<cdr, rdr>>
memVars == <<cd_mem, rd_mem>>
primVars == <<last, cdr_held, rdr_held, hist>>
ownVars == <<poll, fresh>>
pipeVars == <<priv_ring, work_pending, dq, hd, rq, gh>>
selVars == <<priv, sel>>
vars == <<cdr, rdr, cd_mem, rd_mem, hw, last, cdr_held, rdr_held, poll, fresh,
          priv_ring, work_pending, dq, hd, rq, gh, hist, priv, sel>>

Reqs == 1..NReq

CdSlots == {cdr_base_addr + cd_offset * i : i \in 0..(ring_entries - 1)}
RdSlots == {rdr_base_addr + rd_offset * i : i \in 0..(ring_entries - 1)}

(***************************************************************************)
(* safexcel_ring.c: the descriptor ring.                                   *)
(***************************************************************************)
\* The cdr half of safexcel_init_ring_descriptors
init_cdr ==
  [base |-> cdr_base_addr,
   write |-> cdr_base_addr,
   base_end |-> cdr_base_addr + cd_offset * (ring_entries - 1),
   read |-> cdr_base_addr]

\* The rdr half of safexcel_init_ring_descriptors
init_rdr ==
  [base |-> rdr_base_addr,
   write |-> rdr_base_addr,
   base_end |-> rdr_base_addr + rd_offset * (ring_entries - 1),
   read |-> rdr_base_addr]

\* mutant: the full test without the wrapped case (read at base, write at end)
cdr_next_wptr_nowrapfull(ring) ==
  IF ring.write = ring.read - cd_offset
    THEN [ret |-> -ENOMEM, ring |-> ring]
    ELSE [ret |-> ring.write,
          ring |-> [ring EXCEPT !.write = IF ring.write = ring.base_end
                                            THEN ring.base
                                            ELSE ring.write + cd_offset]]

\* mutant: the write pointer is advanced without wrapping at base_end
cdr_next_wptr_nowrap(ring) ==
  IF \/ ring.write = ring.read - cd_offset
     \/ (ring.read = ring.base /\ ring.write = ring.base_end)
    THEN [ret |-> -ENOMEM, ring |-> ring]
    ELSE [ret |-> ring.write,
          ring |-> [ring EXCEPT !.write = ring.write + cd_offset]]

safexcel_cdr_next_wptr(ring) ==
  IF \/ ring.write = ring.read - cd_offset
     \/ (ring.read = ring.base /\ ring.write = ring.base_end)
    THEN [ret |-> -ENOMEM, ring |-> ring]
    ELSE [ret |-> ring.write,
          ring |-> [ring EXCEPT !.write = IF ring.write = ring.base_end
                                            THEN ring.base
                                            ELSE ring.write + cd_offset]]

safexcel_rdr_next_wptr(ring) ==
  IF \/ ring.write = ring.read - rd_offset
     \/ (ring.read = ring.base /\ ring.write = ring.base_end)
    THEN [ret |-> -ENOMEM, ring |-> ring]
    ELSE [ret |-> ring.write,
          ring |-> [ring EXCEPT !.write = IF ring.write = ring.base_end
                                            THEN ring.base
                                            ELSE ring.write + rd_offset]]

\* mutant: the read cursor moves by the result ring's stride
cdr_next_rptr_rdstride(ring) ==
  [ret |-> ring.read,
   ring |-> [ring EXCEPT !.read = IF ring.read = ring.base_end
                                    THEN ring.base
                                    ELSE ring.read + rd_offset]]

safexcel_cdr_next_rptr(ring) ==
  [ret |-> ring.read,
   ring |-> [ring EXCEPT !.read = IF ring.read = ring.base_end
                                    THEN ring.base
                                    ELSE ring.read + cd_offset]]

\* safexcel_rdr_next_rptr, after the ownership poll: the advance of *read
rdr_advance(ring, ptr) ==
  IF ptr = ring.base_end THEN ring.base ELSE ptr + rd_offset

\* mutant: the write cursor is moved back without wrapping at the base
cdr_rollback_wptr_nowrap(ring) ==
  IF ring.write = ring.read
    THEN ring
    ELSE [ring EXCEPT !.write = ring.write - cd_offset]

safexcel_cdr_rollback_wptr(ring) ==
  IF ring.write = ring.read
    THEN ring
    ELSE [ring EXCEPT !.write = IF ring.write = ring.base
                                  THEN ring.base_end
                                  ELSE ring.write - cd_offset]

safexcel_rdr_rollback_wptr(ring) ==
  IF ring.write = ring.read
    THEN ring
    ELSE [ring EXCEPT !.write = IF ring.write = ring.base
                                  THEN ring.base_end
                                  ELSE ring.write - rd_offset]

safexcel_ring_first_rdr_index(ring) == (ring.read - ring.base) \div rd_offset

safexcel_ring_rdr_rdesc_index(ring, rdesc) == (rdesc - ring.base) \div rd_offset

(***************************************************************************)
(* RingSpec: one writer and one reader calling the ring primitives in any  *)
(* order; the reader only reads slots that are held.                       *)
(***************************************************************************)
\* dmam_alloc_coherent(.. __GFP_ZERO): both rings start zero-filled
init_cd_mem == [a \in CdSlots |-> [first_seg |-> 0, last_seg |-> 0]]
init_rd_mem == [a \in RdSlots |-> [last_seg |-> 0, error_code |-> 0, own |-> 0]]

\* the device after safexcel_hw_setup_cdesc_rings/safexcel_hw_setup_rdesc_rings
init_hw ==
  [thresh |-> 0, stat_thresh |-> FALSE, stat_err |-> FALSE,
   proc_pkt |-> 0, proc_bytes |-> 0,
   cd_prep |-> 0, rd_prep |-> 0,
   cd_ptr |-> cdr_base_addr, rd_ptr |-> rdr_base_addr,
   own_pending |-> <<>>, count_pending |-> 0]

init_poll == [pc |-> "idle", cnt |-> 0, ptr |-> NULL, ret |-> 0,
              magic_at_start |-> FALSE, magic_seen |-> FALSE]

\* crypto_init_queue: an empty list, no backlog entry (index 0)
init_queue == [list |-> <<>>, backlog |-> 0]

\* priv->ring[i] after the probe: devm_kcalloc'ed, requests = 0, busy = false
init_ring ==
  [rdr_req |-> [i \in 0..(ring_entries - 1) |-> NULL],
   queue |-> init_queue,
   req |-> NULL, backlog |-> NULL,
   requests |-> 0, busy |-> FALSE, thresh_written |-> 0,
   lock |-> FALSE]

\* safexcel_dequeue not running
init_dq == [pc |-> "idle", req |-> NULL, backlog |-> NULL,
            nreq |-> 0, cdesc |-> 0, rdesc |-> 0]

\* safexcel_handle_result_descriptor not running
init_hd == [pc |-> "idle", nreq |-> 0, handled |-> 0, tot_descs |-> 0,
            stat_err |-> FALSE]

\* a request nobody has submitted yet
init_rq == [kind |-> "none", cache_len |-> 0, nsg |-> 0, all_cached |-> FALSE,
            needs_inv |-> FALSE, may_backlog |-> FALSE,
            accepted |-> FALSE, inflight |-> "none",
            nsent |-> 0, nproc |-> 0, nfinal |-> 0,
            ncomplete |-> 0, status |-> 0, nnotify |-> 0, nbusy |-> 0]

\* the probe: atomic_set(&priv->ring_used, 0), every ring's queue empty;
\* the specifications of one ring take config.rings = 1
init_priv(rings, used) ==
  [ring_used |-> used, rings |-> rings,
   ring |-> [i \in 0..(rings - 1) |-> [queue |-> init_queue, inflight |-> <<>>]],
   exit_inv |-> FALSE,
   areq |-> [r \in 1..MaxSelReq |-> [needs_inv |-> FALSE, may_backlog |-> FALSE]]]

init_sel ==
  [nreq |-> 0, calls |-> <<>>, dev |-> <<>>,
   kind |-> [r \in 1..MaxSelReq |-> "none"],
   done |-> {}]

Init ==
  /\ cdr = init_cdr
  /\ rdr = init_rdr
  /\ cd_mem = init_cd_mem
  /\ rd_mem = init_rd_mem
  /\ hw = init_hw
  /\ last = [op |-> "init", ret |-> 0]
  /\ cdr_held = 0
  /\ rdr_held = 0
  /\ poll = init_poll
  /\ fresh = {}
  /\ priv_ring = init_ring
  /\ work_pending = FALSE
  /\ dq = init_dq
  /\ hd = init_hd
  /\ rq = [r \in Reqs |-> init_rq]
  /\ gh = [nenq |-> 0, nevents |-> 0, sent |-> <<>>, wait |-> <<>>]
  /\ hist = [cdr_slots |-> <<>>, rdr_slots |-> <<>>, cdr_adv |-> 0, rdr_adv |-> 0]
  /\ priv = init_priv(1, 0)
  /\ sel = init_sel

RingCdrNextWptr ==
  LET r == safexcel_cdr_next_wptr(cdr) IN
  /\ hist.cdr_adv < MaxAdv
  /\ cdr' = r.ring
  /\ last' = [op |-> "cdr_next_wptr", ret |-> r.ret]
  /\ cdr_held' = IF IS_ERR(r.ret) THEN cdr_held ELSE cdr_held + 1
  /\ hist' = IF IS_ERR(r.ret)
               THEN hist
               ELSE [hist EXCEPT !.cdr_slots = Append(@, r.ret), !.cdr_adv = @ + 1]
  /\ UNCHANGED <<selVars, rdr, rdr_held, memVars, hw, ownVars, pipeVars>>

RingRdrNextWptr ==
  LET r == safexcel_rdr_next_wptr(rdr) IN
  /\ hist.rdr_adv < MaxAdv
  /\ rdr' = r.ring
  /\ last' = [op |-> "rdr_next_wptr", ret |-> r.ret]
  /\ rdr_held' = IF IS_ERR(r.ret) THEN rdr_held ELSE rdr_held + 1
  /\ hist' = IF IS_ERR(r.ret)
               THEN hist
               ELSE [hist EXCEPT !.rdr_slots = Append(@, r.ret), !.rdr_adv = @ + 1]
  /\ UNCHANGED <<selVars, cdr, cdr_held, memVars, hw, ownVars, pipeVars>>

RingCdrNextRptr ==
  /\ cdr_held > 0
  /\ LET r == safexcel_cdr_next_rptr(cdr) IN
     /\ cdr' = r.ring
     /\ last' = [op |-> "cdr_next_rptr", ret |-> r.ret]
  /\ cdr_held' = cdr_held - 1
  /\ hist' = [hist EXCEPT !.cdr_slots = Tail(@)]
  /\ UNCHANGED <<selVars, rdr, rdr_held, memVars, hw, ownVars, pipeVars>>

RingRdrNextRptr ==
  /\ rdr_held > 0
  /\ rdr' = [rdr EXCEPT !.read = rdr_advance(rdr, rdr.read)]
  /\ last' = [op |-> "rdr_next_rptr", ret |-> rdr.read]
  /\ rdr_held' = rdr_held - 1
  /\ hist' = [hist EXCEPT !.rdr_slots = Tail(@)]
  /\ UNCHANGED <<selVars, cdr, cdr_held, memVars, hw, ownVars, pipeVars>>

RingCdrRollback ==
  /\ cdr' = safexcel_cdr_rollback_wptr(cdr)
  /\ last' = [op |-> "cdr_rollback_wptr", ret |-> 0]
  /\ cdr_held' = IF cdr_held > 0 THEN cdr_held - 1 ELSE cdr_held
  /\ hist' = IF cdr_held > 0
               THEN [hist EXCEPT !.cdr_slots = SubSeq(@, 1, Len(@) - 1),
                                 !.cdr_adv = @ - 1]
               ELSE hist
  /\ UNCHANGED <<selVars, rdr, rdr_held, memVars, hw, ownVars, pipeVars>>

RingRdrRollback ==
  /\ rdr' = safexcel_rdr_rollback_wptr(rdr)
  /\ last' = [op |-> "rdr_rollback_wptr", ret |-> 0]
  /\ rdr_held' = IF rdr_held > 0 THEN rdr_held - 1 ELSE rdr_held
  /\ hist' = IF rdr_held > 0
               THEN [hist EXCEPT !.rdr_slots = SubSeq(@, 1, Len(@) - 1),
                                 !.rdr_adv = @ - 1]
               ELSE hist
  /\ UNCHANGED <<selVars, cdr, cdr_held, memVars, hw, ownVars, pipeVars>>

RingNext ==
  \/ RingCdrNextWptr
  \/ RingRdrNextWptr
  \/ RingCdrNextRptr
  \/ RingRdrNextRptr
  \/ RingCdrRollback
  \/ RingRdrRollback

RingSpec == Init /\ [][RingNext]_vars

\* slots from the read cursor forward to the write cursor
Occupied(ring, stride) ==
  (((ring.write - ring.read) \div stride) + ring_entries) % ring_entries

\* the slot after ptr, wrapping from the last slot to the base
WrapNext(ring, stride, ptr) ==
  IF ptr = ring.base + stride * (ring_entries - 1) THEN ring.base ELSE ptr + stride

\* C1: under the single-writer/single-reader discipline the number of occupied
\* slots, (write - read) modulo capacity, is the number of slots reserved and not
\* yet rolled back or read, and it never exceeds capacity - 1.
C1_RingCapacity ==
  /\ cdr_held <= ring_entries - 1
  /\ Occupied(cdr, cd_offset) = cdr_held
  /\ rdr_held <= ring_entries - 1
  /\ Occupied(rdr, rd_offset) = rdr_held

\* a full command ring whose write cursor has wrapped behind the read cursor
C1_Witness ==
  /\ cdr_held = ring_entries - 1
  /\ cdr.write < cdr.read
  /\ Occupied(cdr, cd_offset) = ring_entries - 1

\* C2: next_write_slot returns the ring-full error exactly when capacity - 1
\* slots are occupied (one more advance, with wrap, would reach the read cursor)
\* and then leaves the write cursor alone; otherwise it returns the old write
\* cursor and advances it by one slot, wrapping from the last slot to the base.
C2_NextWriteSlot ==
  [][/\ (last'.op = "cdr_next_wptr" =>
           /\ (cdr_held = ring_entries - 1) <=> (WrapNext(cdr, cd_offset, cdr.write) = cdr.read)
           /\ IF cdr_held = ring_entries - 1
                THEN last'.ret = -ENOMEM /\ cdr' = cdr
                ELSE /\ last'.ret = cdr.write
                     /\ cdr'.write = WrapNext(cdr, cd_offset, cdr.write)
                     /\ cdr'.read = cdr.read)
     /\ (last'.op = "rdr_next_wptr" =>
           /\ (rdr_held = ring_entries - 1) <=> (WrapNext(rdr, rd_offset, rdr.write) = rdr.read)
           /\ IF rdr_held = ring_entries - 1
                THEN last'.ret = -ENOMEM /\ rdr' = rdr
                ELSE /\ last'.ret = rdr.write
                     /\ rdr'.write = WrapNext(rdr, rd_offset, rdr.write)
                     /\ rdr'.read = rdr.read)]_vars

\* a reservation refused on a full ring, after one that wrapped to the base
C2_Witness ==
  /\ last.op = "cdr_next_wptr"
  /\ last.ret = -ENOMEM
  /\ cdr.write = cdr.base
  /\ cdr.read = cdr.base + cd_offset

\* safexcel_cdr_rollback_wptr called n times in a row
RECURSIVE cdr_rollback_n(_, _)
cdr_rollback_n(ring, n) ==
  IF n = 0 THEN ring ELSE cdr_rollback_n(safexcel_cdr_rollback_wptr(ring), n - 1)

\* safexcel_rdr_rollback_wptr called n times in a row
RECURSIVE rdr_rollback_n(_, _)
rdr_rollback_n(ring, n) ==
  IF n = 0 THEN ring ELSE rdr_rollback_n(safexcel_rdr_rollback_wptr(ring), n - 1)

\* C11: with N slots reserved and none of them consumed (older slots may have
\* been consumed meanwhile), N calls of rollback_write put the write cursor back
\* where it was before the first of the N reservations, also across the wrap,
\* and leave the read cursor alone; a call with write == read changes nothing,
\* so further calls have no effect.
C11_RollbackRestores ==
  \A n \in 0..ring_entries :
    /\ LET held == hist.cdr_slots
           r == cdr_rollback_n(cdr, n)
       IN
       /\ r.read = cdr.read
       /\ (cdr.write = cdr.read) => (r = cdr)
       /\ IF n = 0 \/ n > Len(held)
            THEN r = cdr_rollback_n(cdr, IF n = 0 THEN 0 ELSE Len(held))
            ELSE r.write = held[Len(held) - n + 1]
    /\ LET held == hist.rdr_slots
           r == rdr_rollback_n(rdr, n)
       IN
       /\ r.read = rdr.read
       /\ (rdr.write = rdr.read) => (r = rdr)
       /\ IF n = 0 \/ n > Len(held)
            THEN r = rdr_rollback_n(rdr, IF n = 0 THEN 0 ELSE Len(held))
            ELSE r.write = held[Len(held) - n + 1]

\* the oldest slot has been consumed, all the others were reserved, the last
\* of them moving the write cursor past the end of the ring, and one rollback
\* has taken the write cursor from the base back to the last slot
C11_Witness ==
  /\ last.op = "cdr_rollback_wptr"
  /\ cdr.read = cdr.base + cd_offset
  /\ cdr.write = cdr.base_end
  /\ Len(hist.cdr_slots) = ring_entries - 2
  /\ Head(hist.cdr_slots) = cdr.read
  /\ cdr_rollback_n(cdr, ring_entries - 2).write = cdr.read

\* C12: slots are consumed in the order they were reserved (next_read_slot
\* returns the oldest slot held), so capacity - 1 slots reserved on an empty
\* ring at the base are read back the same, in order; and the write cursor is
\* at the base exactly when the reservations it has made, less the ones rolled
\* back, are a whole number of laps (capacity, for the first lap).
C12_FifoAndLap ==
  [][/\ (cdr'.write = cdr'.base) <=> (hist'.cdr_adv % ring_entries = 0)
     /\ (rdr'.write = rdr'.base) <=> (hist'.rdr_adv % ring_entries = 0)
     /\ last'.op = "cdr_next_rptr" =>
          /\ last'.ret = Head(hist.cdr_slots)
          /\ hist'.cdr_slots = Tail(hist.cdr_slots)
     /\ last'.op = "rdr_next_rptr" =>
          /\ last'.ret = Head(hist.rdr_slots)
          /\ hist'.rdr_slots = Tail(hist.rdr_slots)]_vars

\* one full lap: capacity slots were reserved in all, the first capacity - 1
\* from the base of the empty ring, and the last of them, the ring's last
\* slot, has just been read back; the write cursor is at the base again
C12_Witness ==
  /\ last.op = "cdr_next_rptr"
  /\ last.ret = cdr.base_end
  /\ hist.cdr_adv = ring_entries
  /\ hist.cdr_slots = <<>>
  /\ cdr.read = cdr.base
  /\ cdr.write = cdr.base

(***************************************************************************)
(* safexcel_rdr_next_rptr: the ownership poll.                             *)
(***************************************************************************)
\* mutant: cnt-- instead of --cnt, which leaves cnt at -1 when the poll runs out
own_poll_cond_postdec(cnt, own) ==
  [cnt |-> cnt - 1,
   again |-> (cnt # 0) /\ (own # EIP197_OWNERSHIP_MAGIC)]

\* one evaluation of the loop condition (--cnt) && (*own != MAGIC)
own_poll_cond(cnt, own) ==
  [cnt |-> cnt - 1,
   again |-> (cnt - 1 # 0) /\ (own # EIP197_OWNERSHIP_MAGIC)]

\* mutant: the ownership word is not cleared after a successful poll
own_poll_finish_noclear(ring, mem, ptr, cnt) ==
  IF cnt = 0
    THEN [ret |-> -ENOENT, mem |-> mem, read |-> ptr]
    ELSE [ret |-> ptr, mem |-> mem, read |-> rdr_advance(ring, ptr)]

\* after the loop: the no-entry error, or clear the word and advance *read
own_poll_finish(ring, mem, ptr, cnt) ==
  IF cnt = 0
    THEN [ret |-> -ENOENT, mem |-> mem, read |-> ptr]
    ELSE [ret |-> ptr,
          mem |-> [mem EXCEPT ![ptr].own = NOT32(EIP197_OWNERSHIP_MAGIC)],
          read |-> rdr_advance(ring, ptr)]

(***************************************************************************)
(* OwnSpec: software reserves result slots, the device writes the          *)
(* ownership word of each reserved slot in ring order, at any time, and    *)
(* the consumer calls safexcel_rdr_next_rptr on the read cursor, one loop  *)
(* iteration per step.                                                     *)
(***************************************************************************)
OwnPollStart ==
  /\ poll.pc = "idle"
  /\ poll' = [pc |-> "poll", cnt |-> EIP197_OWN_POLL_COUNT, ptr |-> rdr.read,
              ret |-> 0,
              magic_at_start |-> rd_mem[rdr.read].own = EIP197_OWNERSHIP_MAGIC,
              magic_seen |-> rd_mem[rdr.read].own = EIP197_OWNERSHIP_MAGIC]
  /\ UNCHANGED <<selVars, ringVars, memVars, hw, primVars, fresh, pipeVars>>

OwnPollIter ==
  /\ poll.pc = "poll"
  /\ LET c == own_poll_cond(poll.cnt, rd_mem[poll.ptr].own) IN
     IF c.again
       THEN /\ poll' = [poll EXCEPT !.cnt = c.cnt]
            /\ UNCHANGED <<selVars, ringVars, memVars, hw, primVars, fresh, pipeVars>>
       ELSE LET r == own_poll_finish(rdr, rd_mem, poll.ptr, c.cnt) IN
            /\ poll' = [poll EXCEPT !.pc = "idle", !.cnt = c.cnt, !.ret = r.ret]
            /\ rd_mem' = r.mem
            /\ rdr' = [rdr EXCEPT !.read = r.read]
            /\ last' = [op |-> "rdr_next_rptr", ret |-> r.ret]
            /\ rdr_held' = IF IS_ERR(r.ret) THEN rdr_held ELSE rdr_held - 1
            /\ fresh' = IF IS_ERR(r.ret) THEN fresh ELSE fresh \ {poll.ptr}
            /\ hist' = IF IS_ERR(r.ret) \/ hist.rdr_slots = <<>>
                         THEN hist
                         ELSE [hist EXCEPT !.rdr_slots = Tail(@)]
            /\ UNCHANGED <<selVars, cdr, cd_mem, hw, cdr_held, pipeVars>>

\* the device writes a reserved slot, the ownership word last
OwnDevWrite ==
  /\ hw.rd_ptr # rdr.write
  /\ rd_mem' = [rd_mem EXCEPT ![hw.rd_ptr].own = EIP197_OWNERSHIP_MAGIC]
  /\ hw' = [hw EXCEPT !.rd_ptr = rdr_advance(rdr, hw.rd_ptr)]
  /\ fresh' = fresh \cup {hw.rd_ptr}
  /\ poll' = IF poll.pc = "poll" /\ poll.ptr = hw.rd_ptr
               THEN [poll EXCEPT !.magic_seen = TRUE]
               ELSE poll
  /\ UNCHANGED <<selVars, ringVars, cd_mem, primVars, pipeVars>>

OwnNext ==
  \/ RingRdrNextWptr
  \/ OwnPollStart
  \/ OwnPollIter
  \/ OwnDevWrite

OwnSpec == Init /\ [][OwnNext]_vars

\* C5: a result slot whose ownership word is not the magic value at any moment
\* of a read attempt is not returned as ready: the call returns -ENOENT, with
\* the read cursor and the word as they were.
C5_OwnershipGating ==
  [][(poll.pc = "poll" /\ poll'.pc = "idle" /\ ~poll.magic_seen) =>
       /\ poll'.ret = -ENOENT
       /\ rdr' = rdr
       /\ rd_mem' = rd_mem]_vars

\* a poll that used up all its iterations on a slot the device never wrote
C5_Witness ==
  /\ poll.pc = "idle"
  /\ poll.ptr # NULL
  /\ ~poll.magic_seen
  /\ poll.cnt = 0
  /\ poll.ret = -ENOENT

\* C6: once the device has set a slot's ownership word, exactly one read of the
\* slot succeeds: a read that finds the word set returns the slot and leaves the
\* complement of the magic value in it, and a read of a slot the device has not
\* written since the last successful read returns -ENOENT.
C6_ExactlyOneRead ==
  [][(poll.pc = "poll" /\ poll'.pc = "idle") =>
       /\ poll.magic_at_start =>
            /\ poll'.ret = poll.ptr
            /\ rd_mem'[poll.ptr].own = NOT32(EIP197_OWNERSHIP_MAGIC)
       /\ poll'.ret = poll.ptr =>
            /\ poll.ptr \in fresh
            /\ rd_mem'[poll.ptr].own = NOT32(EIP197_OWNERSHIP_MAGIC)
       /\ poll.ptr \notin fresh => poll'.ret = -ENOENT]_vars

\* a second read of a slot that was read and cleared one lap earlier fails
C6_Witness ==
  /\ poll.pc = "idle"
  /\ poll.ret = -ENOENT
  /\ poll.ptr # NULL
  /\ rd_mem[poll.ptr].own = NOT32(EIP197_OWNERSHIP_MAGIC)

(***************************************************************************)
(* The admission queue: struct crypto_queue of crypto/algapi.c, a list     *)
(* with a length limit and a pointer to the first backlogged entry (here   *)
(* its index in the list, 0 for none).                                     *)
(***************************************************************************)
crypto_enqueue_request(queue, req, may_backlog) ==
  IF Len(queue.list) >= queue_entries
    THEN IF ~may_backlog
           THEN [ret |-> -ENOSPC, queue |-> queue]
           ELSE [ret |-> -EBUSY,
                 queue |-> [list |-> Append(queue.list, req),
                            backlog |-> IF queue.backlog = 0
                                          THEN Len(queue.list) + 1
                                          ELSE queue.backlog]]
    ELSE [ret |-> -EINPROGRESS,
          queue |-> [queue EXCEPT !.list = Append(queue.list, req)]]

crypto_get_backlog(queue) ==
  IF queue.backlog = 0 THEN NULL ELSE queue.list[queue.backlog]

crypto_dequeue_request(queue) ==
  IF Len(queue.list) = 0
    THEN [req |-> NULL, queue |-> queue]
    ELSE [req |-> Head(queue.list),
          queue |-> [list |-> Tail(queue.list),
                     backlog |-> IF queue.backlog = 0 THEN 0
                                 ELSE IF queue.backlog + 1 <= Len(queue.list)
                                        THEN queue.backlog
                                        ELSE 0]]

(***************************************************************************)
(* Building descriptors.  The send callbacks work on the ring context:     *)
(* st = [cdr, rdr, cd_mem, rd_mem, rdr_req].                               *)
(***************************************************************************)
Bit(b) == IF b THEN 1 ELSE 0

safexcel_add_cdesc(st, first, last_) ==
  LET c == safexcel_cdr_next_wptr(st.cdr) IN
  IF IS_ERR(c.ret)
    THEN [ret |-> c.ret, st |-> st]
    ELSE [ret |-> c.ret,
          st |-> [st EXCEPT !.cdr = c.ring,
                            !.cd_mem[c.ret] = [first_seg |-> Bit(first),
                                               last_seg |-> Bit(last_)]]]

\* the memset covers struct safexcel_result_desc only: the result data
\* (error_code) and the ownership word behind it keep what they held
safexcel_add_rdesc(st, first, last_) ==
  LET c == safexcel_rdr_next_wptr(st.rdr) IN
  IF IS_ERR(c.ret)
    THEN [ret |-> c.ret, st |-> st]
    ELSE [ret |-> c.ret,
          st |-> [st EXCEPT !.rdr = c.ring,
                            !.rd_mem[c.ret].last_seg = Bit(last_)]]

\* mutant: the request is stored at the index of the ring's read cursor
rdr_req_set_first(st, rdesc, req) ==
  [st EXCEPT !.rdr_req[safexcel_ring_first_rdr_index(st.rdr)] = req]

safexcel_rdr_req_set(st, rdesc, req) ==
  [st EXCEPT !.rdr_req[safexcel_ring_rdr_rdesc_index(st.rdr, rdesc)] = req]

safexcel_rdr_req_get(rdr_req, ring) ==
  rdr_req[safexcel_ring_first_rdr_index(ring)]

\* mutant: the rollback loop undoes one reservation too few
RECURSIVE cdesc_rollback_short(_, _)
cdesc_rollback_short(st, n_cdesc) ==
  IF n_cdesc <= 1
    THEN st
    ELSE cdesc_rollback_short(
           [st EXCEPT !.cdr = safexcel_cdr_rollback_wptr(st.cdr)], n_cdesc - 1)

\* cdesc_rollback: for (i = 0; i < n_cdesc; i++) safexcel_cdr_rollback_wptr()
RECURSIVE cdesc_rollback(_, _)
cdesc_rollback(st, n_cdesc) ==
  IF n_cdesc <= 0
    THEN st
    ELSE cdesc_rollback(
           [st EXCEPT !.cdr = safexcel_cdr_rollback_wptr(st.cdr)], n_cdesc - 1)

\* the for_each_sg loop: one command descriptor per scatterlist entry, left
\* entries to go; stops at the first reservation that fails
RECURSIVE ahash_send_sg(_, _, _)
ahash_send_sg(st, n_cdesc, left) ==
  IF left = 0
    THEN [ret |-> 0, st |-> st, n_cdesc |-> n_cdesc]
    ELSE LET c == safexcel_add_cdesc(st, n_cdesc = 0, left = 1) IN
         IF IS_ERR(c.ret)
           THEN [ret |-> c.ret, st |-> c.st, n_cdesc |-> n_cdesc]
           ELSE ahash_send_sg(c.st, n_cdesc + 1, left - 1)

\* What may go wrong in a send besides a full ring: one of the DMA mappings.
Faults == {"none", "cache_map", "sg_map", "result_map"}

Failed(ret, st) == [ret |-> ret, st |-> st, commands |-> 0, results |-> 0]

\* What the function computes from the request's lengths is kept as three
\* fields of areq: cache_len (bytes of cached data to send, 0 or 1), nsg
\* (scatterlist entries of the source buffer to send) and all_cached (this
\* is not the last request and everything queued goes to the cache).
safexcel_ahash_send_req(st, req, areq, fault) ==
  IF areq.all_cached THEN [ret |-> 0, st |-> st, commands |-> 0, results |-> 0]
  ELSE IF areq.cache_len # 0 /\ fault = "cache_map" THEN Failed(-EINVAL, st)
  ELSE
    LET c1 == IF areq.cache_len # 0
                THEN safexcel_add_cdesc(st, TRUE, areq.nsg = 0)
                ELSE [ret |-> 0, st |-> st]
        n1 == IF areq.cache_len # 0 THEN 1 ELSE 0
    IN
    IF IS_ERR(c1.ret) THEN Failed(c1.ret, c1.st)
    ELSE IF ~(areq.cache_len # 0 /\ areq.nsg = 0) /\ (areq.nsg = 0 \/ fault = "sg_map")
      \* dma_map_sg mapped nothing
      THEN Failed(-ENOMEM, cdesc_rollback(c1.st, n1))
    ELSE
      LET sg == ahash_send_sg(c1.st, n1, areq.nsg) IN
      IF IS_ERR(sg.ret) THEN Failed(sg.ret, cdesc_rollback(sg.st, sg.n_cdesc))
      ELSE IF fault = "result_map"
        THEN Failed(-EINVAL, cdesc_rollback(sg.st, sg.n_cdesc))
      ELSE
        LET r == safexcel_add_rdesc(sg.st, TRUE, TRUE) IN
        IF IS_ERR(r.ret) THEN Failed(r.ret, cdesc_rollback(r.st, sg.n_cdesc))
        ELSE [ret |-> 0, st |-> safexcel_rdr_req_set(r.st, r.ret, req),
              commands |-> sg.n_cdesc, results |-> 1]

safexcel_invalidate_cache(st, req) ==
  LET c == safexcel_add_cdesc(st, TRUE, TRUE) IN
  IF IS_ERR(c.ret) THEN [ret |-> c.ret, st |-> c.st]
  ELSE
    LET r == safexcel_add_rdesc(c.st, TRUE, TRUE) IN
    IF IS_ERR(r.ret)
      THEN [ret |-> r.ret,
            st |-> [r.st EXCEPT !.cdr = safexcel_cdr_rollback_wptr(r.st.cdr)]]
      ELSE [ret |-> 0, st |-> safexcel_rdr_req_set(r.st, r.ret, req)]

safexcel_ahash_send_inv(st, req) ==
  LET i == safexcel_invalidate_cache(st, req) IN
  IF i.ret # 0
    THEN Failed(i.ret, i.st)
    ELSE [ret |-> 0, st |-> i.st, commands |-> 1, results |-> 1]

safexcel_ahash_send(st, req, areq, fault) ==
  IF areq.needs_inv
    THEN safexcel_ahash_send_inv(st, req)
    ELSE safexcel_ahash_send_req(st, req, areq, fault)

(***************************************************************************)
(* Submitting requests.                                                    *)
(***************************************************************************)
\* safexcel_ahash_enqueue, called by update/final/finup: update submits only
\* more than a block of queued data and final sets last_req, so the request
\* has something to send; req->needs_inv is set when the session's context
\* record has to be invalidated first
safexcel_ahash_enqueue(r, cache_len, nsg, inv, mb) ==
  /\ LET e == crypto_enqueue_request(priv_ring.queue, r, mb) IN
     /\ priv_ring' = [priv_ring EXCEPT !.queue = e.queue]
     /\ rq' = [rq EXCEPT ![r] =
                 IF e.ret = -ENOSPC
                   THEN [init_rq EXCEPT !.kind = "rejected"]
                   ELSE [init_rq EXCEPT !.kind = "req",
                                        !.cache_len = cache_len,
                                        !.nsg = nsg,
                                        !.needs_inv = inv,
                                        \* read again only when the
                                        \* request is enqueued again
                                        !.may_backlog = inv /\ mb,
                                        !.nbusy = IF e.ret = -EBUSY THEN 1 ELSE 0,
                                        !.accepted = TRUE]]
     /\ gh' = [gh EXCEPT !.nenq = r,
                         !.nevents = IF inv /\ e.ret # -ENOSPC THEN @ + 1 ELSE @,
                         !.wait = IF e.ret # -ENOSPC THEN Append(@, r) ELSE @]
  /\ work_pending' = TRUE
  /\ UNCHANGED <<selVars, ringVars, memVars, hw, primVars, ownVars, dq, hd>>

Enqueue ==
  /\ gh.nenq < NReq
  /\ \E cache_len \in 0..1, nsg \in 0..MaxSg, inv \in BOOLEAN, mb \in BOOLEAN :
       /\ cache_len + nsg >= 1
       /\ cache_len + nsg <= ring_entries - 1
       /\ inv => gh.nevents < MaxEvents
       /\ safexcel_ahash_enqueue(gh.nenq + 1, cache_len, nsg, inv, mb)

\* safexcel_ahash_exit_inv: the teardown of a session submits an invalidation
\* request of its own, with CRYPTO_TFM_REQ_MAY_BACKLOG, and sets exit_inv
ExitInv ==
  /\ gh.nenq < NReq
  /\ gh.nevents < MaxEvents
  /\ LET r == gh.nenq + 1
         e == crypto_enqueue_request(priv_ring.queue, r, TRUE)
     IN
     /\ priv_ring' = [priv_ring EXCEPT !.queue = e.queue]
     /\ rq' = [rq EXCEPT ![r] = [init_rq EXCEPT !.kind = "exit_inv",
                                                !.needs_inv = TRUE,
                                                !.may_backlog = TRUE,
                                                !.nbusy = IF e.ret = -EBUSY THEN 1 ELSE 0,
                                                !.accepted = TRUE]]
     /\ gh' = [gh EXCEPT !.nenq = r, !.nevents = @ + 1,
                         !.wait = IF e.ret # -ENOSPC THEN Append(@, r) ELSE @]
  /\ work_pending' = TRUE
  /\ UNCHANGED <<selVars, ringVars, memVars, hw, primVars, ownVars, dq, hd>>

(***************************************************************************)
(* safexcel_dequeue, run by the ring's single-threaded workqueue.          *)
(***************************************************************************)
\* mutant: a busy ring keeps the threshold it has
try_push_requests_keep(ring) ==
  LET coal == IF ring.requests < EIP197_MAX_BATCH_SZ
                THEN ring.requests
                ELSE EIP197_MAX_BATCH_SZ
  IN IF ring.busy
       THEN [thresh |-> ring.thresh_written, ring |-> ring]
       ELSE [thresh |-> coal, ring |-> [ring EXCEPT !.thresh_written = coal]]

\* safexcel_try_push_requests, called with the ring's lock taken: returns the
\* threshold written to the device and the ring context
safexcel_try_push_requests(ring) ==
  LET coal == IF ring.requests < EIP197_MAX_BATCH_SZ
                THEN ring.requests
                ELSE EIP197_MAX_BATCH_SZ
  IN [thresh |-> coal,
      ring |-> IF ~ring.busy THEN [ring EXCEPT !.thresh_written = coal] ELSE ring]

\* mutant: the saved request is taken up again without its backlog target
DequeueStart_nobacklog ==
  /\ work_pending
  /\ dq.pc = "idle"
  /\ work_pending' = FALSE
  /\ hw' = [hw EXCEPT !.thresh = 0]
  /\ dq' = [init_dq EXCEPT !.pc = IF priv_ring.req # NULL THEN "handle_req" ELSE "dequeue",
                           !.req = priv_ring.req]
  /\ UNCHANGED <<selVars, ringVars, memVars, primVars, ownVars, priv_ring, hd, rq, gh>>

\* mutant: the request saved by the previous run is not taken up again
DequeueStart_nostall ==
  /\ work_pending
  /\ dq.pc = "idle"
  /\ work_pending' = FALSE
  /\ hw' = [hw EXCEPT !.thresh = 0]
  /\ dq' = [init_dq EXCEPT !.pc = "dequeue"]
  /\ UNCHANGED <<selVars, ringVars, memVars, primVars, ownVars, priv_ring, hd, rq, gh>>

\* the work starts: the threshold interrupt is disabled, the stalled request
\* (if any) is taken up first
DequeueStart ==
  /\ work_pending
  /\ dq.pc = "idle"
  /\ work_pending' = FALSE
  /\ hw' = [hw EXCEPT !.thresh = 0]
  /\ dq' = [init_dq EXCEPT !.pc = IF priv_ring.req # NULL THEN "handle_req" ELSE "dequeue",
                           !.req = priv_ring.req,
                           !.backlog = priv_ring.backlog]
  /\ UNCHANGED <<selVars, ringVars, memVars, primVars, ownVars, priv_ring, hd, rq, gh>>

\* top of the loop: the next request leaves the queue, under queue_lock
DequeueRequest ==
  /\ dq.pc = "dequeue"
  /\ LET backlog == crypto_get_backlog(priv_ring.queue)
         d == crypto_dequeue_request(priv_ring.queue)
     IN
     IF d.req = NULL
       THEN /\ priv_ring' = [priv_ring EXCEPT !.req = NULL, !.backlog = NULL]
            /\ dq' = [dq EXCEPT !.pc = "finalize", !.req = NULL, !.backlog = backlog]
       ELSE /\ priv_ring' = [priv_ring EXCEPT !.queue = d.queue]
            /\ dq' = [dq EXCEPT !.pc = "handle_req", !.req = d.req, !.backlog = backlog]
  /\ UNCHANGED <<selVars, ringVars, memVars, hw, primVars, ownVars, work_pending, hd, rq, gh>>

\* if (backlog) backlog->complete(backlog, -EINPROGRESS)
backlog_complete(requests, backlog) ==
  IF backlog # NULL
    THEN [requests EXCEPT ![backlog].nnotify = @ + 1]
    ELSE requests

\* mutant: a send that only cached its input is counted as a request in flight
DequeueSend_countcached ==
  /\ dq.pc = "handle_req"
  /\ \E fault \in Faults :
       LET r == dq.req
           st == [cdr |-> cdr, rdr |-> rdr, cd_mem |-> cd_mem, rd_mem |-> rd_mem,
                  rdr_req |-> priv_ring.rdr_req]
           s == safexcel_ahash_send(st, r, rq[r], fault)
       IN
       /\ fault # "none" =>
            /\ gh.nevents < MaxEvents
            /\ s # safexcel_ahash_send(st, r, rq[r], "none")
       /\ cdr' = s.st.cdr
       /\ rdr' = s.st.rdr
       /\ cd_mem' = s.st.cd_mem
       /\ rd_mem' = s.st.rd_mem
       /\ last' = [op |-> "send", ret |-> s.ret, req |-> r, fault |-> fault]
       /\ gh' = [gh EXCEPT !.nevents = IF fault # "none" THEN @ + 1 ELSE @,
                           !.sent = IF s.ret = 0 /\ s.results # 0
                                      THEN Append(@, r) ELSE @,
                           !.wait = IF s.ret = 0
                                      THEN SelectSeq(@, LAMBDA x : x # r) ELSE @]
       /\ IF s.ret # 0
            THEN /\ priv_ring' = [priv_ring EXCEPT !.rdr_req = s.st.rdr_req,
                                                   !.req = r,
                                                   !.backlog = dq.backlog]
                 /\ dq' = [dq EXCEPT !.pc = "finalize"]
                 /\ rq' = rq
            ELSE /\ priv_ring' = [priv_ring EXCEPT !.rdr_req = s.st.rdr_req]
                 /\ IF s.commands = 0 /\ s.results = 0
                      THEN /\ dq' = [dq EXCEPT !.pc = "dequeue", !.nreq = @ + 1]
                           /\ rq' = backlog_complete(rq, dq.backlog)
                      ELSE /\ dq' = [dq EXCEPT !.pc = "dequeue",
                                               !.cdesc = @ + s.commands,
                                               !.rdesc = @ + s.results,
                                               !.nreq = @ + 1]
                           /\ rq' = [backlog_complete(rq, dq.backlog) EXCEPT
                                       ![r].nsent = @ + 1,
                                       ![r].inflight =
                                         IF rq[r].needs_inv THEN "inv" ELSE "req"]
  /\ UNCHANGED <<selVars, hw, cdr_held, rdr_held, hist, ownVars, work_pending, hd>>

\* handle_req: ctx->send(); any error goes to request_failed, which saves the
\* request and the backlog entry in the ring context and ends the loop
DequeueSend ==
  /\ dq.pc = "handle_req"
  /\ \E fault \in Faults :
       LET r == dq.req
           st == [cdr |-> cdr, rdr |-> rdr, cd_mem |-> cd_mem, rd_mem |-> rd_mem,
                  rdr_req |-> priv_ring.rdr_req]
           s == safexcel_ahash_send(st, r, rq[r], fault)
       IN
       /\ fault # "none" =>
            /\ gh.nevents < MaxEvents
            /\ s # safexcel_ahash_send(st, r, rq[r], "none")
       /\ cdr' = s.st.cdr
       /\ rdr' = s.st.rdr
       /\ cd_mem' = s.st.cd_mem
       /\ rd_mem' = s.st.rd_mem
       /\ last' = [op |-> "send", ret |-> s.ret, req |-> r, fault |-> fault]
       /\ gh' = [gh EXCEPT !.nevents = IF fault # "none" THEN @ + 1 ELSE @,
                           !.sent = IF s.ret = 0 /\ s.results # 0
                                      THEN Append(@, r) ELSE @,
                           !.wait = IF s.ret = 0
                                      THEN SelectSeq(@, LAMBDA x : x # r) ELSE @]
       /\ IF s.ret # 0
            THEN /\ priv_ring' = [priv_ring EXCEPT !.rdr_req = s.st.rdr_req,
                                                   !.req = r,
                                                   !.backlog = dq.backlog]
                 /\ dq' = [dq EXCEPT !.pc = "finalize"]
                 /\ rq' = rq
            ELSE /\ priv_ring' = [priv_ring EXCEPT !.rdr_req = s.st.rdr_req]
                 /\ IF s.commands = 0 /\ s.results = 0
                      THEN /\ dq' = [dq EXCEPT !.pc = "dequeue"]
                           /\ rq' = backlog_complete(rq, dq.backlog)
                      ELSE /\ dq' = [dq EXCEPT !.pc = "dequeue",
                                               !.cdesc = @ + s.commands,
                                               !.rdesc = @ + s.results,
                                               !.nreq = @ + 1]
                           /\ rq' = [backlog_complete(rq, dq.backlog) EXCEPT
                                       ![r].nsent = @ + 1,
                                       ![r].inflight =
                                         IF rq[r].needs_inv THEN "inv" ELSE "req"]
  /\ UNCHANGED <<selVars, hw, cdr_held, rdr_held, hist, ownVars, work_pending, hd>>

\* finalize: the CDR prepared count is written
DequeueCdrPrep ==
  /\ dq.pc = "finalize"
  /\ hw' = [hw EXCEPT !.cd_prep = @ + dq.cdesc * cd_offset]
  /\ dq' = [dq EXCEPT !.pc = "lock"]
  /\ UNCHANGED <<selVars, ringVars, memVars, primVars, ownVars, priv_ring, work_pending, hd, rq, gh>>

\* mutant: the RDR prepared count is written before requests is incremented
DequeueLocked_prep_first ==
  \/ /\ dq.pc = "lock"
     /\ ~priv_ring.lock
     /\ priv_ring' = [priv_ring EXCEPT !.lock = TRUE]
     /\ hw' = [hw EXCEPT !.rd_prep = @ + dq.rdesc * rd_offset]
     /\ dq' = [dq EXCEPT !.pc = "rdr_prep"]
     /\ UNCHANGED <<selVars, ringVars, memVars, primVars, ownVars, work_pending, hd, rq, gh>>
  \/ /\ dq.pc = "rdr_prep"
     /\ priv_ring' = [priv_ring EXCEPT !.requests = @ + dq.nreq]
     /\ dq' = [dq EXCEPT !.pc = "push"]
     /\ UNCHANGED <<selVars, ringVars, memVars, hw, primVars, ownVars, work_pending, hd, rq, gh>>
  \/ /\ dq.pc = "push"
     /\ LET p == safexcel_try_push_requests(priv_ring) IN
        IF priv_ring.requests # 0
          THEN /\ hw' = [hw EXCEPT !.thresh = p.thresh]
               /\ priv_ring' = [p.ring EXCEPT !.busy = TRUE, !.lock = FALSE]
          ELSE /\ hw' = hw
               /\ priv_ring' = [priv_ring EXCEPT !.lock = FALSE]
     /\ dq' = init_dq
     /\ UNCHANGED <<selVars, ringVars, memVars, primVars, ownVars, work_pending, hd, rq, gh>>

\* the section under the ring's lock, one step per shared access: requests is
\* incremented, then the RDR prepared count is written, then the threshold
DequeueLocked ==
  \/ /\ dq.pc = "lock"
     /\ ~priv_ring.lock
     /\ priv_ring' = [priv_ring EXCEPT !.lock = TRUE, !.requests = @ + dq.nreq]
     /\ dq' = [dq EXCEPT !.pc = "rdr_prep"]
     /\ UNCHANGED <<selVars, ringVars, memVars, hw, primVars, ownVars, work_pending, hd, rq, gh>>
  \/ /\ dq.pc = "rdr_prep"
     /\ hw' = [hw EXCEPT !.rd_prep = @ + dq.rdesc * rd_offset]
     /\ dq' = [dq EXCEPT !.pc = "push"]
     /\ UNCHANGED <<selVars, ringVars, memVars, primVars, ownVars, priv_ring, work_pending, hd, rq, gh>>
  \/ /\ dq.pc = "push"
     /\ LET p == safexcel_try_push_requests(priv_ring) IN
        IF priv_ring.requests # 0
          THEN /\ hw' = [hw EXCEPT !.thresh = p.thresh]
               /\ priv_ring' = [p.ring EXCEPT !.busy = TRUE, !.lock = FALSE]
          ELSE /\ hw' = hw
               /\ priv_ring' = [priv_ring EXCEPT !.lock = FALSE]
     /\ dq' = init_dq
     /\ UNCHANGED <<selVars, ringVars, memVars, primVars, ownVars, work_pending, hd, rq, gh>>

(***************************************************************************)
(* Handling results.  The handle_result callbacks work on                  *)
(* hs = [cdr, rdr, cd_mem, rd_mem, queue, work].                           *)
(***************************************************************************)
\* the whole ownership poll on a word nobody writes meanwhile: cnt after it
RECURSIVE own_poll(_, _)
own_poll(cnt, own) ==
  LET c == own_poll_cond(cnt, own) IN
  IF c.again THEN own_poll(c.cnt, own) ELSE c.cnt

safexcel_rdr_next_rptr(ring, mem, ptr) ==
  own_poll_finish(ring, mem, ptr, own_poll(EIP197_OWN_POLL_COUNT, mem[ptr].own))

\* a & b on naturals
RECURSIVE BitAnd(_, _)
BitAnd(a, b) ==
  IF a = 0 \/ b = 0
    THEN 0
    ELSE (a % 2) * (b % 2) + 2 * BitAnd(a \div 2, b \div 2)

\* mutant: the mask of the fatal bits takes in bit 9 (0x427f is 17023)
rdesc_check_errors_authfatal(error_code) ==
  IF error_code = 0 THEN 0
  ELSE IF BitAnd(error_code, 17023) # 0 THEN -EIO
  ELSE IF error_code = 512 THEN -EBADMSG
  ELSE -EINVAL

\* 0x407f is 16511, BIT(9) is 512
safexcel_rdesc_check_errors(error_code) ==
  IF error_code = 0 THEN 0
  ELSE IF BitAnd(error_code, 16511) # 0 THEN -EIO
  ELSE IF error_code = 512 THEN -EBADMSG
  ELSE -EINVAL

\* mutant: one command descriptor is acknowledged, last segment or not
safexcel_complete_one(ring, mem) == safexcel_cdr_next_rptr(ring).ring

\* safexcel_complete: the CDR read cursor passes the request's descriptors
RECURSIVE safexcel_complete(_, _)
safexcel_complete(ring, mem) ==
  LET c == safexcel_cdr_next_rptr(ring) IN
  IF mem[c.ret].last_seg # 0 THEN c.ring ELSE safexcel_complete(c.ring, mem)

\* mutant: the request is reported complete although its result is not there
NotReady_complete(ret, hs) == [ndesc |-> 0, should_complete |-> TRUE, ret |-> ret, hs |-> hs]

NotReady(ret, hs) == [ndesc |-> 0, should_complete |-> FALSE, ret |-> ret, hs |-> hs]

\* what both handle_*_result functions do to the rings once the result is there
ResultTaken(hs, n) ==
  [hs EXCEPT !.cdr = safexcel_complete(hs.cdr, hs.cd_mem),
             !.rdr = [hs.rdr EXCEPT !.read = n.read],
             !.rd_mem = n.mem]

\* mutant: the result is taken but the request is not completed
safexcel_handle_req_result_nocomplete(hs) ==
  LET n == safexcel_rdr_next_rptr(hs.rdr, hs.rd_mem, hs.rdr.read) IN
  IF IS_ERR(n.ret)
    THEN NotReady(n.ret, hs)
    ELSE [ndesc |-> 1, should_complete |-> FALSE,
          ret |-> safexcel_rdesc_check_errors(hs.rd_mem[n.ret].error_code),
          hs |-> ResultTaken(hs, n)]

safexcel_handle_req_result(hs) ==
  LET n == safexcel_rdr_next_rptr(hs.rdr, hs.rd_mem, hs.rdr.read) IN
  IF IS_ERR(n.ret)
    THEN NotReady(n.ret, hs)
    ELSE [ndesc |-> 1, should_complete |-> TRUE,
          ret |-> safexcel_rdesc_check_errors(hs.rd_mem[n.ret].error_code),
          hs |-> ResultTaken(hs, n)]

\* with one ring configured safexcel_select_ring returns this ring
safexcel_handle_inv_result(hs, req, areq) ==
  LET n == safexcel_rdr_next_rptr(hs.rdr, hs.rd_mem, hs.rdr.read) IN
  IF IS_ERR(n.ret)
    THEN NotReady(n.ret, hs)
    ELSE
      LET err == safexcel_rdesc_check_errors(hs.rd_mem[n.ret].error_code)
          taken == ResultTaken(hs, n)
      IN
      IF areq.kind = "exit_inv"
        THEN [ndesc |-> 1, should_complete |-> TRUE, ret |-> err, hs |-> taken]
        ELSE
          LET e == crypto_enqueue_request(taken.queue, req, areq.may_backlog) IN
          [ndesc |-> 1, should_complete |-> FALSE,
           ret |-> IF e.ret # -EINPROGRESS THEN e.ret ELSE err,
           hs |-> [taken EXCEPT !.queue = e.queue, !.work = TRUE]]

\* req->needs_inv is cleared before safexcel_handle_inv_result is called;
\* the action that calls this does the clearing
safexcel_handle_result(hs, req, areq) ==
  IF areq.needs_inv
    THEN safexcel_handle_inv_result(hs, req, areq)
    ELSE safexcel_handle_req_result(hs)

\* mutant: a written slot counts as a full packet whether or not it is the
\* last segment
rdr_scan_from_anyseg(ring, mem, rdesc) ==
  mem[rdesc].own = EIP197_OWNERSHIP_MAGIC

\* safexcel_rdr_scan_next, from the slot rdesc on
RECURSIVE rdr_scan_from(_, _, _)
rdr_scan_from(ring, mem, rdesc) ==
  IF mem[rdesc].own = EIP197_OWNERSHIP_MAGIC
    THEN IF mem[rdesc].last_seg # 0
           THEN TRUE
           ELSE rdr_scan_from(ring, mem, rdr_advance(ring, rdesc))
    ELSE FALSE

safexcel_rdr_scan_next(ring, mem) == rdr_scan_from(ring, mem, ring.read)

\* err_finish: the values written to PROC_COUNT for handled packets, as
\* <<packets, bytes>>: full decrements of the packet field first
\* mutant: the loop of full decrements runs while i >= the mask
RECURSIVE proc_count_writes_ge(_, _)
proc_count_writes_ge(i, tot_descs) ==
  IF i >= EIP197_xDR_PROC_xD_PKT_MASK
    THEN <<[pkt |-> EIP197_xDR_PROC_xD_PKT_MASK, bytes |-> 0]>>
         \o proc_count_writes_ge(i - EIP197_xDR_PROC_xD_PKT_MASK, tot_descs)
    ELSE <<[pkt |-> i, bytes |-> tot_descs * rd_offset]>>

RECURSIVE proc_count_writes(_, _)
proc_count_writes(i, tot_descs) ==
  IF i > EIP197_xDR_PROC_xD_PKT_MASK
    THEN <<[pkt |-> EIP197_xDR_PROC_xD_PKT_MASK, bytes |-> 0]>>
         \o proc_count_writes(i - EIP197_xDR_PROC_xD_PKT_MASK, tot_descs)
    ELSE <<[pkt |-> i, bytes |-> tot_descs * rd_offset]>>

\* the device takes each PROC_COUNT write off its processed counters
RECURSIVE dev_proc_count(_, _)
dev_proc_count(h, writes) ==
  IF writes = <<>>
    THEN h
    ELSE dev_proc_count([h EXCEPT !.proc_pkt = @ - Head(writes).pkt,
                                  !.proc_bytes = @ - Head(writes).bytes],
                        Tail(writes))

\* mutant: an aborted batch is accounted as handled in full
abort_handled_all(handled, nreq) == handled

\* RD not yet written: handled -= nreq
abort_handled(handled, nreq) == handled - nreq

(***************************************************************************)
(* safexcel_handle_result_descriptor, run by the ring's interrupt thread   *)
(* (IRQF_ONESHOT: one run per interrupt, never two at once).               *)
(***************************************************************************)
\* the thread wakes up on the ring's interrupt and reads the status register
\* mutant: the status is not looked at, the tracked count is always processed
HandlerStart_nostat ==
  /\ hd.pc = "idle"
  /\ hw.stat_thresh \/ hw.stat_err
  /\ hd' = [pc |-> IF priv_ring.thresh_written # 0 THEN "one_more_req" ELSE "scan",
            nreq |-> priv_ring.thresh_written,
            handled |-> priv_ring.thresh_written,
            tot_descs |-> 0,
            stat_err |-> hw.stat_err]
  /\ UNCHANGED <<selVars, ringVars, memVars, hw, primVars, ownVars, priv_ring, work_pending, dq, rq, gh>>

HandlerStart ==
  /\ hd.pc = "idle"
  /\ hw.stat_thresh \/ hw.stat_err
  /\ hd' = IF ~hw.stat_thresh
             THEN [init_hd EXCEPT !.pc = "no_thresh_irq", !.stat_err = hw.stat_err]
             ELSE [pc |-> IF priv_ring.thresh_written # 0 THEN "one_more_req" ELSE "scan",
                   nreq |-> priv_ring.thresh_written,
                   handled |-> priv_ring.thresh_written,
                   tot_descs |-> 0,
                   stat_err |-> hw.stat_err]
  /\ UNCHANGED <<selVars, ringVars, memVars, hw, primVars, ownVars, priv_ring, work_pending, dq, rq, gh>>

\* one_more_req: one pass of the loop body
HandlerResult ==
  /\ hd.pc = "one_more_req"
  /\ LET req == safexcel_rdr_req_get(priv_ring.rdr_req, rdr)
         hs == [cdr |-> cdr, rdr |-> rdr, cd_mem |-> cd_mem, rd_mem |-> rd_mem,
                queue |-> priv_ring.queue, work |-> work_pending]
         h == safexcel_handle_result(hs, req, rq[req])
     IN
     /\ cdr' = h.hs.cdr
     /\ rdr' = h.hs.rdr
     /\ cd_mem' = h.hs.cd_mem
     /\ rd_mem' = h.hs.rd_mem
     /\ priv_ring' = [priv_ring EXCEPT !.queue = h.hs.queue]
     /\ work_pending' = h.hs.work
     /\ rq' = [rq EXCEPT ![req] =
                 [@ EXCEPT !.needs_inv = FALSE,
                           !.nproc = @ + h.ndesc,
                           !.nfinal = IF h.ndesc # 0 /\ (rq[req].inflight = "req"
                                                        \/ rq[req].kind = "exit_inv")
                                       THEN @ + 1 ELSE @,
                           !.inflight = IF h.ndesc # 0 THEN "none" ELSE @,
                           !.nbusy = IF ~h.should_complete /\ h.ndesc # 0
                                        /\ h.ret = -EBUSY
                                       THEN @ + 1 ELSE @,
                           !.ncomplete = IF h.should_complete THEN @ + 1 ELSE @,
                           !.status = IF h.should_complete THEN h.ret ELSE @]]
     /\ hd' = IF ~h.should_complete /\ h.ndesc = 0
                THEN [hd EXCEPT !.handled = abort_handled(hd.handled, hd.nreq),
                                !.pc = "err_finish"]
                ELSE [hd EXCEPT !.tot_descs = @ + h.ndesc,
                                !.nreq = @ - 1,
                                !.pc = IF hd.nreq - 1 # 0 THEN "one_more_req" ELSE "scan"]
     /\ gh' = [gh EXCEPT !.sent = IF h.ndesc # 0 /\ @ # <<>> THEN Tail(@) ELSE @,
                         !.wait = IF Len(h.hs.queue.list) > Len(hs.queue.list)
                                    THEN Append(@, req) ELSE @]
  /\ UNCHANGED <<selVars, hw, primVars, ownVars, dq>>

\* after the loop: is the next packet there already?
HandlerScan ==
  /\ hd.pc = "scan"
  /\ hd' = IF safexcel_rdr_scan_next(rdr, rd_mem)
             THEN [hd EXCEPT !.nreq = 1, !.handled = @ + 1, !.pc = "one_more_req"]
             ELSE [hd EXCEPT !.pc = "err_finish"]
  /\ UNCHANGED <<selVars, ringVars, memVars, hw, primVars, ownVars, priv_ring, work_pending, dq, rq, gh>>

\* err_finish: the handled packets and descriptors are acknowledged
HandlerAck ==
  /\ hd.pc = "err_finish"
  /\ hw' = IF hd.handled # 0
             THEN dev_proc_count(hw, proc_count_writes(hd.handled, hd.tot_descs))
             ELSE hw
  /\ hd' = [hd EXCEPT !.pc = "no_thresh_irq"]
  /\ UNCHANGED <<selVars, ringVars, memVars, primVars, ownVars, priv_ring, work_pending, dq, rq, gh>>

\* mutant: the section is entered without waiting for the ring's lock
HandlerLocked_nolock ==
  /\ hd.pc = "no_thresh_irq"
  /\ LET ring1 == [priv_ring EXCEPT !.requests = @ - hd.handled, !.busy = FALSE]
         p == safexcel_try_push_requests(ring1)
     IN
     IF ring1.requests # 0
       THEN /\ priv_ring' = [p.ring EXCEPT !.busy = TRUE]
            /\ hw' = [hw EXCEPT !.stat_thresh = FALSE, !.stat_err = FALSE,
                                !.thresh = p.thresh]
       ELSE /\ priv_ring' = ring1
            /\ hw' = [hw EXCEPT !.stat_thresh = FALSE, !.stat_err = FALSE]
  /\ work_pending' = TRUE
  /\ hd' = init_hd
  /\ UNCHANGED <<selVars, ringVars, memVars, primVars, ownVars, dq, rq, gh>>

\* mutant: ring.busy is not cleared at the start of the section
HandlerLocked_keepbusy ==
  /\ hd.pc = "no_thresh_irq"
  /\ ~priv_ring.lock
  /\ LET ring1 == [priv_ring EXCEPT !.requests = @ - hd.handled]
         p == safexcel_try_push_requests(ring1)
     IN
     IF ring1.requests # 0
       THEN /\ priv_ring' = [p.ring EXCEPT !.busy = TRUE]
            /\ hw' = [hw EXCEPT !.stat_thresh = FALSE, !.stat_err = FALSE,
                                !.thresh = p.thresh]
       ELSE /\ priv_ring' = ring1
            /\ hw' = [hw EXCEPT !.stat_thresh = FALSE, !.stat_err = FALSE]
  /\ work_pending' = TRUE
  /\ hd' = init_hd
  /\ UNCHANGED <<selVars, ringVars, memVars, primVars, ownVars, dq, rq, gh>>

\* no_thresh_irq: under the ring's lock requests is decremented, the
\* interrupt acknowledged and the threshold written; back in
\* safexcel_irq_ring_thread the dequeue work is queued
HandlerLocked ==
  /\ hd.pc = "no_thresh_irq"
  /\ ~priv_ring.lock
  /\ LET ring1 == [priv_ring EXCEPT !.requests = @ - hd.handled, !.busy = FALSE]
         p == safexcel_try_push_requests(ring1)
     IN
     IF ring1.requests # 0
       THEN /\ priv_ring' = [p.ring EXCEPT !.busy = TRUE]
            /\ hw' = [hw EXCEPT !.stat_thresh = FALSE, !.stat_err = FALSE,
                                !.thresh = p.thresh]
       ELSE /\ priv_ring' = ring1
            /\ hw' = [hw EXCEPT !.stat_thresh = FALSE, !.stat_err = FALSE]
  /\ work_pending' = TRUE
  /\ hd' = init_hd
  /\ UNCHANGED <<selVars, ringVars, memVars, primVars, ownVars, dq, rq, gh>>

(***************************************************************************)
(* The device.  It consumes published command descriptors packet by        *)
(* packet, writes one result descriptor per packet into the published      *)
(* result slots, counts the packet as processed, and raises the threshold  *)
(* interrupt when the count reaches a nonzero threshold.  The ownership    *)
(* word of a result lands after its other fields; it may land before or    *)
(* after the packet is counted (the DMA configuration does not make the    *)
(* status update wait for the write).  Acknowledged packets are taken off  *)
(* the count, which stands for counted minus acknowledged packets.         *)
(***************************************************************************)
dev_cd_next(ptr) ==
  IF ptr = init_cdr.base_end THEN init_cdr.base ELSE ptr + cd_offset

\* the packet at ptr: how many command descriptors, and the slot after it
RECURSIVE dev_packet(_, _, _)
dev_packet(mem, ptr, n) ==
  IF mem[ptr].last_seg # 0
    THEN [n |-> n + 1, next |-> dev_cd_next(ptr)]
    ELSE dev_packet(mem, dev_cd_next(ptr), n + 1)

\* error codes a result may carry: none, a fatal one (bit 0), authentication
\* failed (bit 9), another non-fatal one (bit 10)
DevErrorCodes == {0, 1, 512, 1024}

DeviceProcess ==
  /\ hw.cd_prep > 0
  /\ hw.rd_prep > 0
  /\ Len(hw.own_pending) < MaxOwnLag
  /\ \E code \in DevErrorCodes :
       /\ code # 0 => gh.nevents < MaxEvents
       /\ LET pkt == dev_packet(cd_mem, hw.cd_ptr, 0) IN
          /\ hw' = [hw EXCEPT !.cd_prep = @ - pkt.n * cd_offset,
                              !.rd_prep = @ - rd_offset,
                              !.cd_ptr = pkt.next,
                              !.rd_ptr = rdr_advance(rdr, hw.rd_ptr),
                              !.count_pending = @ + 1,
                              !.own_pending = Append(@, hw.rd_ptr)]
          /\ rd_mem' = [rd_mem EXCEPT ![hw.rd_ptr].error_code = code,
                                      ![hw.rd_ptr].last_seg = 1]
          /\ gh' = [gh EXCEPT !.nevents = IF code # 0 THEN @ + 1 ELSE @]
  /\ UNCHANGED <<selVars, ringVars, cd_mem, primVars, ownVars, priv_ring, work_pending, dq, hd, rq>>

DeviceOwnWrite ==
  /\ hw.own_pending # <<>>
  /\ rd_mem' = [rd_mem EXCEPT ![Head(hw.own_pending)].own = EIP197_OWNERSHIP_MAGIC]
  /\ hw' = [hw EXCEPT !.own_pending = Tail(@)]
  /\ UNCHANGED <<selVars, ringVars, cd_mem, primVars, ownVars, pipeVars>>

\* a packet whose result has been written is counted as processed
DeviceCount ==
  /\ hw.count_pending > 0
  /\ hw' = [hw EXCEPT !.count_pending = @ - 1,
                      !.proc_pkt = @ + 1,
                      !.proc_bytes = @ + rd_offset]
  /\ UNCHANGED <<selVars, ringVars, memVars, primVars, ownVars, pipeVars>>

\* the threshold interrupt: level-triggered on processed packets >= threshold
DeviceIrq ==
  /\ hw.thresh > 0
  /\ hw.proc_pkt >= hw.thresh
  /\ ~hw.stat_thresh
  /\ hw' = [hw EXCEPT !.stat_thresh = TRUE]
  /\ UNCHANGED <<selVars, ringVars, memVars, primVars, ownVars, pipeVars>>

\* an error interrupt of the ring (EIP197_xDR_ERR), at any time
DeviceErrIrq ==
  /\ ~hw.stat_err
  /\ gh.nevents < MaxEvents
  /\ hw' = [hw EXCEPT !.stat_err = TRUE]
  /\ gh' = [gh EXCEPT !.nevents = @ + 1]
  /\ UNCHANGED <<selVars, ringVars, memVars, primVars, ownVars, priv_ring, work_pending, dq, hd, rq>>

(***************************************************************************)
(* Spec: requests are submitted while the dequeue work, the interrupt      *)
(* thread and the device run, one ring.                                    *)
(***************************************************************************)
Next ==
  \/ Enqueue
  \/ ExitInv
  \/ DequeueStart
  \/ DequeueRequest
  \/ DequeueSend
  \/ DequeueCdrPrep
  \/ DequeueLocked
  \/ HandlerStart
  \/ HandlerResult
  \/ HandlerScan
  \/ HandlerAck
  \/ HandlerLocked
  \/ DeviceProcess
  \/ DeviceOwnWrite
  \/ DeviceCount
  \/ DeviceIrq
  \/ DeviceErrIrq

Spec == Init /\ [][Next]_vars

(***************************************************************************)
(* ScenSpec: ScenReqs independent requests of one descriptor each are      *)
(* admitted to the ring, whenever their callers get to it; nothing fails:  *)
(* no DMA mapping error, no device error, no invalidation.                 *)
(***************************************************************************)
ScenInit ==
  /\ cdr = init_cdr
  /\ rdr = init_rdr
  /\ cd_mem = init_cd_mem
  /\ rd_mem = init_rd_mem
  /\ hw = init_hw
  /\ last = [op |-> "init", ret |-> 0]
  /\ cdr_held = 0
  /\ rdr_held = 0
  /\ poll = init_poll
  /\ fresh = {}
  /\ priv_ring = init_ring
  /\ work_pending = FALSE
  /\ dq = init_dq
  /\ hd = init_hd
  /\ rq = [r \in 1..ScenReqs |-> init_rq]
  /\ gh = [nenq |-> 0, nevents |-> MaxEvents, sent |-> <<>>, wait |-> <<>>]
  /\ hist = [cdr_slots |-> <<>>, rdr_slots |-> <<>>, cdr_adv |-> 0, rdr_adv |-> 0]
  /\ priv = init_priv(1, 0)
  /\ sel = init_sel

\* one source block, nothing cached, CRYPTO_TFM_REQ_MAY_BACKLOG set
ScenEnqueue ==
  /\ gh.nenq < ScenReqs
  /\ safexcel_ahash_enqueue(gh.nenq + 1, 0, 1, FALSE, TRUE)

ScenNext ==
  \/ ScenEnqueue
  \/ DequeueStart
  \/ DequeueRequest
  \/ DequeueSend
  \/ DequeueCdrPrep
  \/ DequeueLocked
  \/ HandlerStart
  \/ HandlerResult
  \/ HandlerScan
  \/ HandlerAck
  \/ HandlerLocked
  \/ DeviceProcess
  \/ DeviceOwnWrite
  \/ DeviceCount
  \/ DeviceIrq

ScenSpec == ScenInit /\ [][ScenNext]_vars

(***************************************************************************)
(* ErrSpec: safexcel_rdesc_check_errors applied to a result descriptor     *)
(* with any error code of up to 15 bits.                                   *)
(***************************************************************************)
ErrInit ==
  /\ cdr = init_cdr
  /\ rdr = init_rdr
  /\ cd_mem = init_cd_mem
  /\ \E code \in 0..MaxErrorCode :
       rd_mem = [init_rd_mem EXCEPT ![rdr_base_addr].error_code = code]
  /\ hw = init_hw
  /\ last = [op |-> "init", ret |-> 0]
  /\ cdr_held = 0
  /\ rdr_held = 0
  /\ poll = init_poll
  /\ fresh = {}
  /\ priv_ring = init_ring
  /\ work_pending = FALSE
  /\ dq = init_dq
  /\ hd = init_hd
  /\ rq = [r \in Reqs |-> init_rq]
  /\ gh = [nenq |-> 0, nevents |-> 0, sent |-> <<>>, wait |-> <<>>]
  /\ hist = [cdr_slots |-> <<>>, rdr_slots |-> <<>>, cdr_adv |-> 0, rdr_adv |-> 0]
  /\ priv = init_priv(1, 0)
  /\ sel = init_sel

ErrCheck ==
  /\ last.op = "init"
  /\ last' = [op |-> "check_errors",
              ret |-> safexcel_rdesc_check_errors(rd_mem[rdr.read].error_code)]
  /\ UNCHANGED <<selVars, ringVars, memVars, hw, cdr_held, rdr_held, hist, ownVars, pipeVars>>

ErrNext == ErrCheck

ErrSpec == ErrInit /\ [][ErrNext]_vars

\* sanity of the model's own bookkeeping
TypeOK ==
  /\ hw.proc_pkt + hw.count_pending >= 0
  /\ hw.cd_prep >= 0
  /\ hw.rd_prep >= 0
  /\ priv_ring.requests >= 0

RECURSIVE SumTo(_, _)
SumTo(f, n) == IF n = 0 THEN 0 ELSE f[n] + SumTo(f, n - 1)

\* sends that succeeded and produced descriptors, over all requests
Admitted == SumTo([r \in Reqs |-> rq[r].nsent], NReq)

\* results the interrupt thread has taken off the ring, over all requests
Processed == SumTo([r \in Reqs |-> rq[r].nproc], NReq)

\* result descriptors published to the device and not yet taken off the ring
\* by the interrupt thread: those the device still has to write, and those it
\* has written, from the read cursor up to the device's cursor
PublishedUnprocessed ==
  hw.rd_prep \div rd_offset
    + Occupied([write |-> hw.rd_ptr, read |-> rdr.read], rd_offset)

\* C3: at every quiescent point (neither safexcel_dequeue nor
\* safexcel_handle_result_descriptor is executing) ring.requests equals the
\* number of sends that succeeded with descriptors minus the number of results
\* the interrupt thread has fully processed.
C3_InFlightAccounting ==
  (dq.pc = "idle" /\ hd.pc = "idle") =>
    priv_ring.requests = Admitted - Processed

\* a quiescent point with two requests sent: the thread has processed one
\* result and acknowledged it, the other is counted by the device but its
\* ownership word is not written yet
C3_Witness ==
  /\ dq.pc = "idle"
  /\ hd.pc = "idle"
  /\ Admitted = 2
  /\ Processed = 1
  /\ priv_ring.requests = 1
  /\ hw.proc_pkt = 1
  /\ hw.own_pending # <<>>

\* C4: in every reachable state ring.requests is not negative and is at least
\* the number of result descriptors published to the device and not yet
\* processed by the interrupt thread; it is not zero while there are any.
C4_RequestsCoverPublished ==
  /\ priv_ring.requests >= 0
  /\ priv_ring.requests >= PublishedUnprocessed
  /\ PublishedUnprocessed > 0 => priv_ring.requests # 0

\* the dequeue work has incremented requests and not yet written the RDR
\* prepared count, while the interrupt thread is in the middle of a run with
\* an earlier result still on the ring
C4_Witness ==
  /\ dq.pc = "rdr_prep"
  /\ dq.nreq > 0
  /\ hd.pc = "one_more_req"
  /\ PublishedUnprocessed > 0
  /\ priv_ring.requests = PublishedUnprocessed + dq.nreq

C9_SendErrorNotRetried ==
  (last.op = "send" /\ last.ret # 0 /\ last.ret # -ENOMEM) =>
    /\ priv_ring.req # last.req
    /\ rq[last.req].ncomplete = 1
    /\ rq[last.req].status = last.ret

Idle ==
  /\ ~work_pending
  /\ dq.pc = "idle"
  /\ hd.pc = "idle"
  /\ ~hw.stat_thresh
  /\ ~hw.stat_err
  /\ ~(hw.thresh > 0 /\ hw.proc_pkt >= hw.thresh)
  /\ hw.own_pending = <<>>
  /\ hw.count_pending = 0
  /\ ~(hw.cd_prep > 0 /\ hw.rd_prep > 0)

\* C7: every request accepted into the admission queue is eventually sent
\* and completed, given fair scheduling of the dequeue work, the interrupt
\* thread and the device.  Stated as what a finite run can refute: as long as
\* an accepted request has not been completed, the work, the thread or the
\* device has a step to take.
C7_AcceptedEventuallyCompleted ==
  \A r \in Reqs : (rq[r].accepted /\ rq[r].ncomplete = 0) => ~Idle

\* requests sent to the ring whose result has not been processed
Outstanding ==
  SumTo([r \in DOMAIN rq |-> rq[r].nsent - rq[r].nproc], Len(rq))

\* every request of the scenario was admitted and nothing is left to do
ScenDone == gh.nenq = ScenReqs /\ Idle

\* C13 as stated: with a ring of capacity 4 and 5 single-descriptor requests,
\* the only send that is deferred is that of the 5th request, with 4 requests
\* outstanding, and it is deferred once; the run ends with 5 completions
\* and the in-flight counter at 0.
C13_FifthDefersWithFourOutstanding ==
  [][/\ (dq.pc = "handle_req" /\ dq'.pc = "finalize") =>
          /\ last'.ret = -ENOMEM
          /\ last'.req = ScenReqs
          /\ Outstanding = ring_entries
          /\ ~(last.op = "send" /\ last.ret = -ENOMEM)
     /\ ScenDone' =>
          /\ \A r \in DOMAIN rq : rq'[r].ncomplete = 1
          /\ priv_ring'.requests = 0]_vars

\* C13, amended: a send is deferred exactly when the ring is full, which is
\* with capacity - 1 requests outstanding, so the first request that can be
\* deferred is the capacity-th (the 4th of 5 on a ring of capacity 4); the
\* deferred request is the one sent next, once a completion has been
\* processed; the run ends with every request sent once and completed once
\* with status 0, and the in-flight counter at 0.
C13_DefersWhenRingFull ==
  [][/\ dq.pc = "handle_req" /\ dq'.pc # "handle_req" =>
          IF Outstanding = ring_entries - 1
            THEN /\ dq'.pc = "finalize"
                 /\ last'.ret = -ENOMEM
                 /\ last'.req >= ring_entries
                 /\ priv_ring'.req = last'.req
                 /\ Outstanding' = Outstanding
            ELSE /\ dq'.pc = "dequeue"
                 /\ last'.ret = 0
                 /\ Outstanding < ring_entries - 1
                 /\ Outstanding' = Outstanding + 1
                 /\ (last.op = "send" /\ last.ret # 0) => last'.req = last.req
     /\ ScenDone' =>
          /\ \A r \in DOMAIN rq :
               /\ rq'[r].nsent = 1
               /\ rq'[r].ncomplete = 1
               /\ rq'[r].status = 0
          /\ priv_ring'.requests = 0
          /\ priv_ring'.req = NULL]_vars

\* all the requests were admitted and the send of the capacity-th has just
\* been deferred, the ring being full with the capacity - 1 requests before it
C13_Witness ==
  /\ gh.nenq = ScenReqs
  /\ dq.pc = "finalize"
  /\ last.op = "send"
  /\ last.ret = -ENOMEM
  /\ last.req = ring_entries
  /\ priv_ring.req = ring_entries
  /\ Outstanding = ring_entries - 1
  /\ \A r \in 1..(ring_entries - 1) : rq[r].nsent = 1 /\ rq[r].nproc = 0

\* the request the interrupt thread is about to look up, and its result slot
HeadReq == safexcel_rdr_req_get(priv_ring.rdr_req, rdr)

\* the step is one pass of the loop of safexcel_handle_result_descriptor
IsHandlerResult == hd.pc = "one_more_req" /\ hd' # hd

\* command descriptors the request in flight for r holds in the CDR
CdescsOf(r) ==
  IF rq[r].inflight = "inv" THEN 1 ELSE rq[r].cache_len + rq[r].nsg

\* C14: a request whose result carries the authentication-failure error code
\* (bit 9 alone) is completed with -EBADMSG, not -EIO; the pass consumes its
\* result slot and its command descriptors and counts it as handled, as for a
\* successful result, so that requests is decremented for it; the ring's
\* error status is not touched.
C14_AuthFailureStatus ==
  [][(/\ IsHandlerResult
      /\ rd_mem[rdr.read].own = EIP197_OWNERSHIP_MAGIC
      /\ rd_mem[rdr.read].error_code = 512
      /\ (~rq[HeadReq].needs_inv \/ rq[HeadReq].kind = "exit_inv")) =>
       /\ rq'[HeadReq].ncomplete = rq[HeadReq].ncomplete + 1
       /\ rq'[HeadReq].status = -EBADMSG
       /\ rq'[HeadReq].status # -EIO
       /\ rq'[HeadReq].nproc = rq[HeadReq].nproc + 1
       /\ rdr'.read = WrapNext(rdr, rd_offset, rdr.read)
       /\ Occupied(cdr', cd_offset) = Occupied(cdr, cd_offset) - CdescsOf(HeadReq)
       /\ hd'.handled = hd.handled
       /\ hd'.nreq = hd.nreq - 1
       /\ hd'.tot_descs = hd.tot_descs + 1
       /\ hd'.stat_err = hd.stat_err
       /\ hw' = hw]_vars

\* a request has completed with the authentication failure, its result is
\* acknowledged, requests is back at 0 and no error status is pending
C14_Witness ==
  /\ \E r \in Reqs :
       /\ rq[r].status = -EBADMSG
       /\ rq[r].ncomplete = 1
       /\ rq[r].nproc = 1
  /\ hd.pc = "idle"
  /\ priv_ring.requests = 0
  /\ Occupied(cdr, cd_offset) = 0
  /\ hw.proc_pkt = 0
  /\ ~hw.stat_err

\* C15: safexcel_rdesc_check_errors has three outcomes: code 0 gives success,
\* the authentication-failure pattern (bit 9 alone) gives -EBADMSG, every other
\* nonzero code gives the fatal descriptor error -EIO.
C15_ThreeOutcomes ==
  last.op = "check_errors" =>
    last.ret = IF rd_mem[rdr.read].error_code = 0 THEN 0
               ELSE IF rd_mem[rdr.read].error_code = 512 THEN -EBADMSG
               ELSE -EIO

\* C16: ring full (-ENOMEM) and result not yet written (-ENOENT) are absorbed:
\* neither is ever the status of a completion callback, and neither makes an
\* accepted request fail, they only delay it: a request that has completed
\* was sent as a request and completed on its own result.
C16_TransientsAbsorbed ==
  \A r \in Reqs :
    /\ rq[r].ncomplete >= 1 => rq[r].status \notin {-ENOMEM, -ENOENT}
    /\ (rq[r].kind = "req" /\ rq[r].ncomplete >= 1) => rq[r].nfinal >= 1


\* C17: at every lookup of the interrupt thread, rdr_req[index of the RDR
\* read cursor] is the oldest request holding a result slot, and that request
\* is in flight; a pass completes no other request, so completion callbacks
\* come in the order the results were placed; the result slot a pass consumes
\* is that request's.
C17_ResultsInPlacementOrder ==
  [][IsHandlerResult =>
       /\ gh.sent # <<>>
       /\ HeadReq = Head(gh.sent)
       /\ rq[HeadReq].nsent > rq[HeadReq].nproc
       /\ \A r \in Reqs : rq'[r] # rq[r] => r = Head(gh.sent)
       /\ rdr'.read # rdr.read =>
            /\ gh'.sent = Tail(gh.sent)
            /\ rq'[HeadReq].nproc = rq[HeadReq].nproc + 1]_vars

\* request 1 was sent as an invalidation, re-admitted and sent again behind
\* request 2; in one run of the interrupt thread request 2 has been completed
\* and the next lookup finds request 1
C17_Witness ==
  /\ hd.pc = "one_more_req"
  /\ hd.tot_descs >= 1
  /\ gh.sent = <<1>>
  /\ HeadReq = 1
  /\ rq[2].ncomplete = 1
  /\ rq[1].nsent = 2
  /\ rq[1].nproc = 1
  /\ rq[1].ncomplete = 0


(***************************************************************************)
(* SelSpec: several rings.  Every submission, and every re-admission after *)
(* an invalidation, picks its ring with safexcel_select_ring; each ring    *)
(* has its own queue, its own worker and its own interrupt thread.  Of a   *)
(* ring's pipeline the order is kept: the worker sends the requests of its *)
(* queue in order, and the ring's results come back in the order sent.     *)
(* All requests are of one session, which safexcel_ahash_exit_inv tears    *)
(* down at some moment.  ring_used starts at a value the counter has after *)
(* that many selections since the probe.                                   *)
(***************************************************************************)
\* atomic_t holds an int; the kernel's atomics wrap in two's complement
atomic_inc_return(v) == IF v = 2147483647 THEN -2147483647 - 1 ELSE v + 1

\* (unsigned int)v % n for an int v: v + 2^32 for v < 0, the remainder of
\* 2^32 being taken by halves (TLC's integers are 32-bit signed)
u32_rem(v, n) ==
  IF v >= 0 THEN v % n
  ELSE ((v % n) + ((65536 % n) * (65536 % n))) % n

\* mutant: the counter is read, not incremented
select_ring_noinc(p) ==
  [priv |-> p, val |-> p.ring_used, ret |-> u32_rem(p.ring_used, p.rings)]

\* mutant: the remainder of the int itself, which C truncates towards zero
select_ring_signed(p) ==
  LET v == atomic_inc_return(p.ring_used) IN
  [priv |-> [p EXCEPT !.ring_used = v], val |-> v,
   ret |-> IF v >= 0 \/ v % p.rings = 0 THEN v % p.rings
           ELSE (v % p.rings) - p.rings]

\* config.rings is a u32, so the % is taken of the counter converted to u32
safexcel_select_ring(p) ==
  LET v == atomic_inc_return(p.ring_used) IN
  [priv |-> [p EXCEPT !.ring_used = v], val |-> v,
   ret |-> u32_rem(v, p.rings)]

\* ring_used after 0, 2^31 - 2 and 2^32 - 2 selections
RingUsedStarts == {0, 2147483646, -2}

SelInit ==
  /\ cdr = init_cdr
  /\ rdr = init_rdr
  /\ cd_mem = init_cd_mem
  /\ rd_mem = init_rd_mem
  /\ hw = init_hw
  /\ last = [op |-> "init", ret |-> 0]
  /\ cdr_held = 0
  /\ rdr_held = 0
  /\ poll = init_poll
  /\ fresh = {}
  /\ priv_ring = init_ring
  /\ work_pending = FALSE
  /\ dq = init_dq
  /\ hd = init_hd
  /\ rq = [r \in Reqs |-> init_rq]
  /\ gh = [nenq |-> 0, nevents |-> 0, sent |-> <<>>, wait |-> <<>>]
  /\ hist = [cdr_slots |-> <<>>, rdr_slots |-> <<>>, cdr_adv |-> 0, rdr_adv |-> 0]
  /\ \E rings \in 1..MaxRings, used \in RingUsedStarts :
       priv = init_priv(rings, used)
  /\ sel = init_sel

\* mutant: the request is put on the ring after the selected one
sel_enqueue_next(p, r, may_backlog, any) ==
  LET s == safexcel_select_ring(p)
      ring == (s.ret + 1) % p.rings
      e == crypto_enqueue_request(s.priv.ring[ring].queue, r, may_backlog)
  IN [priv |-> [s.priv EXCEPT !.ring[ring].queue = e.queue],
      call |-> [val |-> s.val, ret |-> s.ret], ret |-> e.ret]

\* ring = safexcel_select_ring(priv); crypto_enqueue_request(&priv->ring[ring]
\* .queue, ..) under its queue_lock: the request r goes to the selected ring.
\* priv->ring[ring] with ring outside the array is undefined: the access may
\* then hit any ring
sel_enqueue(p, r, may_backlog, any) ==
  LET s == safexcel_select_ring(p)
      ring == IF s.ret \in DOMAIN s.priv.ring THEN s.ret ELSE any
      e == crypto_enqueue_request(s.priv.ring[ring].queue, r, may_backlog)
  IN [priv |-> [s.priv EXCEPT !.ring[ring].queue = e.queue],
      call |-> [val |-> s.val, ret |-> s.ret], ret |-> e.ret]

\* safexcel_ahash_enqueue of a request of the session
SelEnqueue ==
  /\ sel.nreq < MaxSelReq
  /\ ~priv.exit_inv
  /\ \E inv \in BOOLEAN, mb \in BOOLEAN, any \in DOMAIN priv.ring :
       LET r == sel.nreq + 1
           q == sel_enqueue(priv, r, mb, any)
       IN
       /\ priv' = [q.priv EXCEPT !.areq[r] = [needs_inv |-> inv, may_backlog |-> mb]]
       /\ sel' = [sel EXCEPT !.nreq = r,
                             !.calls = Append(@, q.call),
                             !.kind[r] = IF q.ret = -ENOSPC THEN "rejected" ELSE "req"]
  /\ UNCHANGED <<ringVars, memVars, hw, primVars, ownVars, pipeVars>>

\* safexcel_ahash_exit_inv: ctx->base.exit_inv = true, the invalidation
\* request is enqueued on the selected ring with CRYPTO_TFM_REQ_MAY_BACKLOG
SelExitInv ==
  /\ sel.nreq < MaxSelReq
  /\ ~priv.exit_inv
  /\ \E any \in DOMAIN priv.ring :
       LET r == sel.nreq + 1
           q == sel_enqueue(priv, r, TRUE, any)
       IN
       /\ priv' = [q.priv EXCEPT !.exit_inv = TRUE,
                                 !.areq[r] = [needs_inv |-> TRUE, may_backlog |-> TRUE]]
       /\ sel' = [sel EXCEPT !.nreq = r,
                             !.calls = Append(@, q.call),
                             !.kind[r] = "exit_inv"]
  /\ UNCHANGED <<ringVars, memVars, hw, primVars, ownVars, pipeVars>>

\* safexcel_dequeue of ring i: the next request of its queue is sent, as an
\* invalidation if req->needs_inv (safexcel_ahash_send)
SelDequeue ==
  /\ \E i \in 0..(priv.rings - 1) :
       LET d == crypto_dequeue_request(priv.ring[i].queue) IN
       /\ d.req # NULL
       /\ priv' = [priv EXCEPT !.ring[i].queue = d.queue,
                               !.ring[i].inflight = Append(@, d.req)]
       /\ sel' = [sel EXCEPT !.dev = Append(@,
                    [req |-> d.req, ring |-> i,
                     what |-> IF priv.areq[d.req].needs_inv THEN "inv" ELSE "req"])]
  /\ UNCHANGED <<ringVars, memVars, hw, primVars, ownVars, pipeVars>>

\* the interrupt thread of ring i takes the oldest result of its ring:
\* safexcel_handle_result clears req->needs_inv, and the result of an
\* invalidation either ends the request (exit_inv) or has it enqueued again
\* on the ring selected then
SelHandleResult ==
  /\ \E i \in 0..(priv.rings - 1) :
       /\ priv.ring[i].inflight # <<>>
       /\ LET r == Head(priv.ring[i].inflight)
              p1 == [priv EXCEPT !.ring[i].inflight = Tail(@),
                                 !.areq[r].needs_inv = FALSE]
          IN
          IF priv.areq[r].needs_inv /\ ~priv.exit_inv
            THEN \E any \in DOMAIN priv.ring :
                 LET q == sel_enqueue(p1, r, priv.areq[r].may_backlog, any) IN
                 /\ priv' = q.priv
                 /\ sel' = [sel EXCEPT !.calls = Append(@, q.call),
                                       !.kind[r] = IF q.ret = -ENOSPC
                                                     THEN "dropped" ELSE @]
            ELSE /\ priv' = p1
                 /\ sel' = [sel EXCEPT !.done = @ \cup {r}]
  /\ UNCHANGED <<ringVars, memVars, hw, primVars, ownVars, pipeVars>>

SelNext ==
  \/ SelEnqueue
  \/ SelExitInv
  \/ SelDequeue
  \/ SelHandleResult

SelSpec == SelInit /\ [][SelNext]_vars


\* the requests in flight on ring i
InflightOn(i) == {priv.ring[i].inflight[k] : k \in DOMAIN priv.ring[i].inflight}

\* C18: once the session's teardown invalidation has been sent to the device,
\* every request of the session admitted before it has been completed or is
\* in flight ahead of it on the same ring, and none is sent after it,
\* whatever the number of rings.
C18_InvalidationAfterEarlier ==
  \A j \in DOMAIN sel.dev :
    sel.kind[sel.dev[j].req] = "exit_inv" =>
      \A r \in 1..(sel.dev[j].req - 1) :
        sel.kind[r] = "req" =>
          /\ r \in sel.done \/ r \in InflightOn(sel.dev[j].ring)
          /\ \A k \in DOMAIN sel.dev : k > j => sel.dev[k].req # r


\* the step is made inside a section bracketed by spin_lock_bh(&ring.lock):
\* by safexcel_dequeue taking or holding the lock, or by the interrupt
\* thread, which enters its section only with the lock free
LockedStep ==
  \/ dq' # dq /\ (priv_ring.lock \/ priv_ring'.lock)
  \/ hd.pc = "no_thresh_irq" /\ hd' # hd /\ ~priv_ring.lock

\* the step is one of the sections bracketed by spin_lock_bh(&ring.queue_lock)
QueueLockedStep ==
  \/ gh'.nenq # gh.nenq
  \/ dq.pc = "dequeue" /\ dq' # dq
  \/ IsHandlerResult /\ rq[HeadReq].needs_inv /\ rq[HeadReq].kind # "exit_inv"

\* C19: the admission queue, requests, busy, thresh_written and the device's
\* threshold register are written only inside a section under ring.lock.
C19_WrittenUnderRingLock ==
  [][(\/ priv_ring'.queue # priv_ring.queue
      \/ priv_ring'.requests # priv_ring.requests
      \/ priv_ring'.busy # priv_ring.busy
      \/ priv_ring'.thresh_written # priv_ring.thresh_written
      \/ hw'.thresh # hw.thresh) => LockedStep]_vars

\* C19 as the code has it: requests, busy and thresh_written are written only
\* inside a section under ring.lock; the admission queue only inside a section
\* under ring.queue_lock; the threshold register inside a section under
\* ring.lock, or, without any lock, by the reset to 0 safexcel_dequeue starts
\* with.
C19_WrittenUnderItsLock ==
  [][/\ (\/ priv_ring'.requests # priv_ring.requests
         \/ priv_ring'.busy # priv_ring.busy
         \/ priv_ring'.thresh_written # priv_ring.thresh_written) => LockedStep
     /\ priv_ring'.queue # priv_ring.queue => QueueLockedStep /\ ~LockedStep
     /\ hw'.thresh # hw.thresh =>
          \/ LockedStep
          \/ dq.pc = "idle" /\ dq'.pc # "idle" /\ hw'.thresh = 0]_vars

\* safexcel_dequeue has left its section under the lock with two requests
\* counted, the ring busy and the threshold written for both
C19_Witness ==
  /\ dq = init_dq
  /\ ~priv_ring.lock
  /\ priv_ring.requests = 2
  /\ priv_ring.busy
  /\ priv_ring.thresh_written = 2
  /\ hw.thresh = 2


\* C20: every call of safexcel_select_ring returns an index i with
\* 0 <= i < config.rings, also after ring_used has passed the largest int and
\* after it has passed the largest u32; and no two calls observe the same
\* value of the counter, however the callers interleave.
C20_SelectRingInRange ==
  /\ \A k \in DOMAIN sel.calls :
       /\ sel.calls[k].ret >= 0
       /\ sel.calls[k].ret < priv.rings
  /\ \A k, l \in DOMAIN sel.calls :
       k # l => sel.calls[k].val # sel.calls[l].val

\* with three rings, a call has observed the counter wrapped to the smallest
\* int (2^31 as a u32: ring 2), and two calls later the counter is at -2^31 + 2
C20_Witness ==
  /\ priv.rings = 3
  /\ \E k \in DOMAIN sel.calls :
       /\ sel.calls[k].val = -2147483647 - 1
       /\ sel.calls[k].ret = 2
  /\ priv.ring_used = -2147483646


\* C21: consecutive calls of safexcel_select_ring, in the order of their
\* atomic increments, return r and (r + 1) mod N, so that any N consecutive
\* calls select each of the N rings exactly once.
C21_RoundRobin ==
  /\ \A k \in 1..(Len(sel.calls) - 1) :
       sel.calls[k + 1].ret = (sel.calls[k].ret + 1) % priv.rings
  /\ \A k \in 1..(Len(sel.calls) - priv.rings + 1) :
       {sel.calls[k + d].ret : d \in 0..(priv.rings - 1)} = 0..(priv.rings - 1)

\* the second of two consecutive calls has observed the counter back at 0,
\* having passed the largest u32
WrappedAt(k) == sel.calls[k + 1].val = 0

\* C21 as the code has it: consecutive calls return r and (r + 1) mod N, and N
\* consecutive calls select each ring once, as long as the counter does not
\* pass the largest u32 between them; the call that observes the counter back
\* at 0 returns ring 0, the call before it having returned (2^32 - 1) mod N,
\* which is N - 1 only if N divides 2^32.
C21_RoundRobinUntilWrap ==
  /\ \A k \in 1..(Len(sel.calls) - 1) :
       IF WrappedAt(k)
         THEN /\ sel.calls[k + 1].ret = 0
              /\ sel.calls[k].ret = u32_rem(-1, priv.rings)
              /\ (sel.calls[k].ret = priv.rings - 1) <=>
                   ((65536 % priv.rings) * (65536 % priv.rings)) % priv.rings = 0
         ELSE sel.calls[k + 1].ret = (sel.calls[k].ret + 1) % priv.rings
  /\ \A k \in 1..(Len(sel.calls) - priv.rings + 1) :
       (\A d \in 0..(priv.rings - 2) : ~WrappedAt(k + d)) =>
         {sel.calls[k + d].ret : d \in 0..(priv.rings - 1)} = 0..(priv.rings - 1)

\* three rings: two consecutive calls across the wrap have both returned ring
\* 0, and the three calls after them have selected rings 1, 2 and 0
C21_Witness ==
  /\ priv.rings = 3
  /\ Len(sel.calls) = 5
  /\ sel.calls[1].val = -1
  /\ sel.calls[1].ret = 0
  /\ sel.calls[2].ret = 0
  /\ sel.calls[3].ret = 1
  /\ sel.calls[4].ret = 2
  /\ sel.calls[5].ret = 0


\* the rings that hold request r, in their queue or in flight
RingsOf(r) ==
  {i \in DOMAIN priv.ring :
     \/ \E k \in DOMAIN priv.ring[i].queue.list : priv.ring[i].queue.list[k] = r
     \/ r \in InflightOn(i)}

\* the step is a run of the worker or of the interrupt thread of some ring,
\* not a submission
EngineStep == sel'.nreq = sel.nreq

C23_FinalisationOrder ==
  [][/\ (dq.pc = "finalize" /\ dq' # dq) =>
          /\ hw'.cd_prep = hw.cd_prep + dq.cdesc * cd_offset
          /\ hw'.rd_prep = hw.rd_prep
          /\ hw'.thresh = hw.thresh
          /\ priv_ring' = priv_ring
          /\ dq'.pc = "lock"
     /\ (dq.pc = "lock" /\ dq' # dq) =>
          /\ ~priv_ring.lock
          /\ priv_ring'.lock
          /\ priv_ring'.requests = priv_ring.requests + dq.nreq
          /\ hw' = hw
          /\ dq'.pc = "rdr_prep"
     /\ (dq.pc = "rdr_prep" /\ dq' # dq) =>
          /\ priv_ring.lock
          /\ priv_ring' = priv_ring
          /\ hw'.rd_prep = hw.rd_prep + dq.rdesc * rd_offset
          /\ hw'.thresh = hw.thresh
          /\ dq'.pc = "push"
     /\ (dq.pc = "push" /\ dq' # dq) =>
          /\ priv_ring.lock
          /\ ~priv_ring'.lock
          /\ priv_ring'.requests = priv_ring.requests
          /\ hw'.rd_prep = hw.rd_prep
          /\ hw'.cd_prep = hw.cd_prep
          /\ IF priv_ring.requests # 0
               THEN /\ hw'.thresh = safexcel_try_push_requests(priv_ring).thresh
                    /\ priv_ring'.busy
               ELSE /\ hw'.thresh = hw.thresh
                    /\ priv_ring'.busy = priv_ring.busy
          /\ dq' = init_dq
     /\ hw'.cd_prep > hw.cd_prep => dq.pc = "finalize"
     /\ priv_ring'.requests > priv_ring.requests => dq.pc = "lock"
     /\ hw'.rd_prep > hw.rd_prep => dq.pc = "rdr_prep"]_vars

\* a run that sent two requests is between its RDR prepared write and the
\* threshold: both counts are published and requests covers the two
C23_Witness ==
  /\ dq.pc = "push"
  /\ dq.nreq = 2
  /\ priv_ring.lock
  /\ priv_ring.requests = 2
  /\ hw.rd_prep = 2 * rd_offset
  /\ hw.cd_prep >= 2 * cd_offset


\* C24: whenever neither safexcel_dequeue nor the interrupt thread is running
\* on the ring and requests > 0, the threshold last written to the device is
\* min(requests, EIP197_MAX_BATCH_SZ), hence not 0 (interrupt not disabled).
C24_ThresholdCoversRequests ==
  (dq.pc = "idle" /\ hd.pc = "idle" /\ priv_ring.requests > 0) =>
    /\ hw.thresh = IF priv_ring.requests < EIP197_MAX_BATCH_SZ
                     THEN priv_ring.requests
                     ELSE EIP197_MAX_BATCH_SZ
    /\ hw.thresh > 0


\* a second run of safexcel_dequeue has raised the threshold to 2 on a busy
\* ring (thresh_written still 1), and nothing is running
C24_Witness ==
  /\ dq.pc = "idle"
  /\ hd.pc = "idle"
  /\ priv_ring.requests = 2
  /\ priv_ring.busy
  /\ priv_ring.thresh_written = 1
  /\ hw.thresh = 2


\* the interrupt thread starts a run on a threshold interrupt
IsHandlerStart == hd.pc = "idle" /\ hd'.pc # "idle" /\ hw.stat_thresh

\* C25: when the interrupt thread takes up a threshold interrupt, the number
\* of results it sets out to process, thresh_written, is at most the number
\* of packets the device has counted as processed and the driver has not
\* acknowledged.
C25_ThreshWrittenAvailable ==
  [][IsHandlerStart =>
       /\ hd'.nreq = priv_ring.thresh_written
       /\ priv_ring.thresh_written <= hw.proc_pkt]_vars


\* C26: a run of safexcel_dequeue that finds a stalled request starts with
\* the send of that request, with the backlog target saved with it, before
\* anything leaves the queue; a request whose send fails is saved with its
\* backlog target and ends the run; every request sent is the one admitted
\* first among those not sent yet; and the stalled state is cleared when the
\* queue is found empty.
C26_StalledRequestFirst ==
  [][/\ (dq.pc = "idle" /\ dq'.pc # "idle") =>
          IF priv_ring.req # NULL
            THEN /\ dq'.pc = "handle_req"
                 /\ dq'.req = priv_ring.req
                 /\ dq'.backlog = priv_ring.backlog
                 /\ priv_ring'.queue = priv_ring.queue
            ELSE dq'.pc = "dequeue"
     /\ (dq.pc = "handle_req" /\ dq' # dq) =>
          IF last'.ret = 0
            THEN /\ gh.wait # <<>>
                 /\ dq.req = Head(gh.wait)
                 /\ gh'.wait = Tail(gh.wait)
                 /\ dq'.pc = "dequeue"
            ELSE /\ priv_ring'.req = dq.req
                 /\ priv_ring'.backlog = dq.backlog
                 /\ gh'.wait = gh.wait
                 /\ priv_ring'.queue = priv_ring.queue
                 /\ dq'.pc = "finalize"
     /\ (dq.pc = "dequeue" /\ dq' # dq) =>
          /\ \A k \in DOMAIN gh.wait : gh.wait[k] # priv_ring.req
          /\ IF priv_ring.queue.list = <<>>
               THEN /\ priv_ring'.req = NULL
                    /\ priv_ring'.backlog = NULL
                    /\ dq'.pc = "finalize"
               ELSE /\ dq'.req = Head(priv_ring.queue.list)
                    /\ dq'.req = Head(gh.wait)
                    /\ dq'.pc = "handle_req"]_vars

\* the request saved by a run whose send of it failed has been sent by a
\* later run, first, and that run goes on with the queue, where the other
\* request waits
C26_Witness ==
  /\ dq.pc = "dequeue"
  /\ last.op = "send"
  /\ last.ret = 0
  /\ priv_ring.req = last.req
  /\ dq.nreq = 1
  /\ priv_ring.queue.list # <<>>


\* slots from the slot at from forward to the slot at to
SlotsBetween(from, to, stride) ==
  (((to - from) \div stride) + ring_entries) % ring_entries

\* the run of safexcel_dequeue has not written the CDR prepared count yet
CdUnpublished == dq.pc \in {"handle_req", "dequeue", "finalize"}

\* the run of safexcel_dequeue has not written the RDR prepared count yet
RdUnpublished == dq.pc \in {"handle_req", "dequeue", "finalize", "lock", "rdr_prep"}

\* C27: a send that fails on a full ring ends the run and adds nothing to the
\* run's counts, which a successful send raises by the descriptors it placed
\* and by one request; so the descriptors placed and not taken by the device
\* are, at every moment, those published and those counted by the run in
\* progress, and the run publishes exactly its counts.
C27_FailedSendPublishesNothing ==
  [][/\ (dq.pc = "handle_req" /\ dq' # dq /\ last'.ret = -ENOMEM
           /\ last'.fault = "none") =>
          /\ dq'.cdesc = dq.cdesc
          /\ dq'.rdesc = dq.rdesc
          /\ dq'.nreq = dq.nreq
          /\ dq'.pc = "finalize"
          /\ hw' = hw
          /\ priv_ring'.requests = priv_ring.requests
     /\ (dq.pc = "handle_req" /\ dq' # dq /\ last'.ret = 0) =>
          /\ dq'.cdesc = dq.cdesc + SlotsBetween(cdr.write, cdr'.write, cd_offset)
          /\ dq'.rdesc = dq.rdesc + SlotsBetween(rdr.write, rdr'.write, rd_offset)
          /\ dq'.nreq = dq.nreq + (IF cdr'.write # cdr.write THEN 1 ELSE 0)
     /\ SlotsBetween(hw'.cd_ptr, cdr'.write, cd_offset) =
          (hw'.cd_prep \div cd_offset) + (IF CdUnpublished' THEN dq'.cdesc ELSE 0)
     /\ SlotsBetween(hw'.rd_ptr, rdr'.write, rd_offset) =
          (hw'.rd_prep \div rd_offset) + (IF RdUnpublished' THEN dq'.rdesc ELSE 0)
     /\ (dq.pc = "lock" /\ dq' # dq) =>
          priv_ring'.requests = priv_ring.requests + dq.nreq]_vars

\* the second send of a run has failed on the full ring; the run has counted
\* the first request alone and is about to publish its result descriptor
C27_Witness ==
  /\ dq.pc = "rdr_prep"
  /\ last.op = "send"
  /\ last.ret = -ENOMEM
  /\ last.fault = "none"
  /\ priv_ring.req = last.req
  /\ dq.nreq = 1
  /\ dq.rdesc = 1
  /\ priv_ring.requests = 1
  /\ hw.cd_prep = dq.cdesc * cd_offset


\* the entries of the queue from its backlog pointer on: backlogged, and not
\* yet obtained by a run of safexcel_dequeue
BacklogChain ==
  IF priv_ring.queue.backlog = 0 THEN {}
  ELSE {priv_ring.queue.list[k] :
          k \in priv_ring.queue.backlog..Len(priv_ring.queue.list)}

\* r is the backlog target of a request that is about to be sent or that is
\* saved for the next run
BacklogHeld(r) ==
  \/ dq.pc = "handle_req" /\ dq.backlog = r
  \/ dq.pc \notin {"handle_req", "dequeue"} /\ priv_ring.req # NULL
       /\ priv_ring.backlog = r

\* C28: the backlog target obtained with a request is notified in the step
\* in which that request's send succeeds and in no other step, one
\* notification per step; a failed send saves the target with the request,
\* and the next run takes both up again.  No target is notified more often
\* than it was backlogged, and a backlogged request not yet notified is still
\* to be obtained from the queue or is held with a request not yet sent.
C28_BacklogNotifiedOnSuccess ==
  [][/\ (dq.pc = "handle_req" /\ dq' # dq) =>
          IF last'.ret = 0
            THEN \A r \in Reqs :
                   rq'[r].nnotify = rq[r].nnotify + (IF r = dq.backlog THEN 1 ELSE 0)
            ELSE /\ \A r \in Reqs : rq'[r].nnotify = rq[r].nnotify
                 /\ priv_ring'.req = dq.req
                 /\ priv_ring'.backlog = dq.backlog
     /\ ~(dq.pc = "handle_req" /\ dq' # dq) =>
          \A r \in Reqs : rq'[r].nnotify = rq[r].nnotify
     /\ (dq.pc = "idle" /\ dq'.pc = "handle_req") =>
          /\ dq'.req = priv_ring.req
          /\ dq'.backlog = priv_ring.backlog
     /\ \A r \in Reqs :
          /\ rq'[r].nnotify <= rq'[r].nbusy
          /\ rq'[r].nnotify < rq'[r].nbusy =>
               (r \in BacklogChain' \/ BacklogHeld(r)')]_vars


\* a send has failed on the full ring with a backlog target, both were saved,
\* a later run has sent the request first and notified the target then, once
C28_Witness ==
  /\ dq.pc = "dequeue"
  /\ last.op = "send"
  /\ last.ret = 0
  /\ priv_ring.req = last.req
  /\ priv_ring.backlog # NULL
  /\ priv_ring.backlog # last.req
  /\ rq[priv_ring.backlog].nbusy = 1
  /\ rq[priv_ring.backlog].nnotify = 1
  /\ rq[priv_ring.backlog].nsent = 0


(***************************************************************************)
(* C29: a result found not ready stops the batch.  Every result is one     *)
(* descriptor here, so hd.tot_descs counts the results the run has         *)
(* processed (j - 1) and hd.nreq the ones it still expected (n - j + 1).   *)
(***************************************************************************)
IsHandlerAbort == IsHandlerResult /\ hd'.pc = "err_finish"

\* a run past its loop with results still expected is a stopped one
HandlerStopped == hd.pc \in {"err_finish", "no_thresh_irq"} /\ hd.nreq # 0

\* C29: when the j-th result of a batch is not ready the run stops there:
\* the count to acknowledge is the j - 1 results processed, the device's
\* processed counters are taken down by exactly these results and their
\* descriptors, ring.requests goes down by exactly j - 1, and the result not
\* ready and those behind it stay in the ring with their requests
C29_NotReadyStopsBatch ==
  [][/\ IsHandlerResult /\ hd'.pc # "err_finish" =>
          /\ hd'.tot_descs = hd.tot_descs + 1
          /\ Len(gh'.sent) = Len(gh.sent) - 1
     /\ IsHandlerAbort =>
          /\ hd.nreq # 0
          /\ hd'.handled = hd.tot_descs
          /\ hd'.nreq = hd.nreq /\ hd'.tot_descs = hd.tot_descs
          /\ rdr' = rdr /\ cdr' = cdr
          /\ priv_ring'.rdr_req = priv_ring.rdr_req
          /\ gh'.sent = gh.sent
          /\ \A r \in Reqs : /\ rq'[r].ncomplete = rq[r].ncomplete
                             /\ rq'[r].inflight = rq[r].inflight
     /\ (HandlerStopped /\ hd.pc = "err_finish" /\ hd' # hd) =>
          /\ hw'.proc_pkt = hw.proc_pkt - hd.tot_descs
          /\ hw'.proc_bytes = hw.proc_bytes - hd.tot_descs * rd_offset
          /\ hd'.handled = hd.tot_descs /\ hd'.nreq = hd.nreq
     /\ (HandlerStopped /\ hd.pc = "no_thresh_irq" /\ hd' # hd) =>
          /\ priv_ring'.requests = priv_ring.requests - hd.tot_descs
          /\ gh'.sent = gh.sent]_vars

\* a run has processed one result, found the next one it expected not
\* ready and stopped, and has acknowledged the one result to the device
C29_Witness ==
  /\ hd.pc = "no_thresh_irq" /\ hd.nreq = 1 /\ hd.handled = 1 /\ hd.tot_descs = 1
  /\ gh.sent # <<>>


(***************************************************************************)
(* C30: the frame of a failed ownership poll.                              *)
(***************************************************************************)
\* the slot at the RDR read cursor does not carry the ownership magic
HeadNotWritten == rd_mem[rdr.read].own # EIP197_OWNERSHIP_MAGIC

\* C30: when handle_result is called and the slot at the read cursor has not
\* been written, the RDR and CDR read cursors, the slot's marker and the
\* slot-to-request table keep their values, the call reports 0 descriptors
\* with should_complete false (the run stops with nothing added to its
\* descriptor count), and no completion callback is invoked
C30_FailedPollChangesNothing ==
  [][(IsHandlerResult /\ HeadNotWritten) =>
       /\ rdr'.read = rdr.read /\ rdr' = rdr
       /\ cdr'.read = cdr.read /\ cdr' = cdr
       /\ rd_mem' = rd_mem /\ cd_mem' = cd_mem
       /\ priv_ring'.rdr_req = priv_ring.rdr_req
       /\ priv_ring'.queue = priv_ring.queue
       /\ hd'.pc = "err_finish"
       /\ hd'.tot_descs = hd.tot_descs /\ hd'.nreq = hd.nreq
       /\ \A r \in Reqs : /\ rq'[r].ncomplete = rq[r].ncomplete
                          /\ rq'[r].status = rq[r].status
                          /\ rq'[r].nproc = rq[r].nproc
                          /\ rq'[r].inflight = rq[r].inflight]_vars

\* handle_result has just found the slot of a request in flight not written
C30_Witness ==
  /\ hd.pc = "err_finish" /\ hd.nreq # 0
  /\ HeadNotWritten
  /\ rq[HeadReq].inflight # "none"
  /\ rq[HeadReq].ncomplete = 0


(***************************************************************************)
(* C31: ring.busy against ring.requests wherever the ring's lock is free.  *)
(***************************************************************************)
\* C31: whenever the ring's lock is not held (so at every release of it by
\* safexcel_dequeue or safexcel_handle_result_descriptor, and for every
\* observer that then takes it), ring.busy is true exactly when
\* ring.requests > 0
C31_BusyIffRequests ==
  ~priv_ring.lock => (priv_ring.busy <=> priv_ring.requests > 0)

\* the interrupt thread has processed a result and released the lock with
\* requests left, the ring marked busy; the dequeue work is about to take it
C31_Witness ==
  /\ ~priv_ring.lock /\ priv_ring.busy /\ priv_ring.requests > 0
  /\ hd.pc = "idle" /\ Processed > 0
  /\ dq.pc = "lock"


(***************************************************************************)
(* ScanSpec: safexcel_rdr_scan_next applied to a result ring in any state  *)
(* of its markers and last-segment flags, from any read cursor.  At least  *)
(* one slot does not carry the magic value: the ring never holds more than *)
(* ring_entries - 1 results.                                               *)
(***************************************************************************)
ScanInit ==
  /\ cdr = init_cdr
  /\ \E rd \in RdSlots : rdr = [init_rdr EXCEPT !.read = rd]
  /\ cd_mem = init_cd_mem
  /\ \E written \in (SUBSET RdSlots) \ {RdSlots} : \E lastseg \in SUBSET RdSlots :
       rd_mem = [a \in RdSlots |->
                   [last_seg |-> IF a \in lastseg THEN 1 ELSE 0,
                    error_code |-> 0,
                    own |-> IF a \in written THEN EIP197_OWNERSHIP_MAGIC
                                             ELSE NOT32(EIP197_OWNERSHIP_MAGIC)]]
  /\ hw = init_hw
  /\ last = [op |-> "init", ret |-> FALSE]
  /\ cdr_held = 0
  /\ rdr_held = 0
  /\ poll = init_poll
  /\ fresh = {}
  /\ priv_ring = init_ring
  /\ work_pending = FALSE
  /\ dq = init_dq
  /\ hd = init_hd
  /\ rq = [r \in Reqs |-> init_rq]
  /\ gh = [nenq |-> 0, nevents |-> 0, sent |-> <<>>, wait |-> <<>>]
  /\ hist = [cdr_slots |-> <<>>, rdr_slots |-> <<>>, cdr_adv |-> 0, rdr_adv |-> 0]
  /\ priv = init_priv(1, 0)
  /\ sel = init_sel

ScanCall ==
  /\ last.op = "init"
  /\ last' = [op |-> "rdr_scan_next", ret |-> safexcel_rdr_scan_next(rdr, rd_mem)]
  /\ UNCHANGED <<selVars, ringVars, memVars, hw, cdr_held, rdr_held, hist, ownVars, pipeVars>>

ScanNext == ScanCall

ScanSpec == ScanInit /\ [][ScanNext]_vars

\* the k-th slot of the walk that starts at the read cursor, k = 0, 1, ..
WalkSlot(k) ==
  rdr.base + (((rdr.read - rdr.base) \div rd_offset + k) % ring_entries) * rd_offset

\* C32: a call of safexcel_rdr_scan_next leaves the read cursor and every
\* marker as they were, and returns true exactly when the walk from the
\* read cursor, wrapping, meets a last-segment slot with the magic value in
\* it and in every slot walked before it; so it returns false when a slot
\* without the magic value comes first
C32_ScanNextFindsFullPacket ==
  [][(last.op = "init" /\ last'.op = "rdr_scan_next") =>
       /\ rdr' = rdr
       /\ rd_mem' = rd_mem
       /\ last'.ret <=>
            \E k \in 0..(ring_entries - 1) :
              /\ rd_mem[WalkSlot(k)].last_seg # 0
              /\ \A j \in 0..k : rd_mem[WalkSlot(j)].own = EIP197_OWNERSHIP_MAGIC
       /\ (\E k \in 0..(ring_entries - 1) :
             /\ rd_mem[WalkSlot(k)].own # EIP197_OWNERSHIP_MAGIC
             /\ \A j \in 0..(k - 1) : /\ rd_mem[WalkSlot(j)].own = EIP197_OWNERSHIP_MAGIC
                                      /\ rd_mem[WalkSlot(j)].last_seg = 0)
            => ~last'.ret]_vars

\* the scan has started at the last slot of the ring, walked over a written
\* slot that is not a last segment, wrapped, and found the full packet
C32_Witness ==
  /\ last.op = "rdr_scan_next" /\ last.ret
  /\ rdr.read = rdr.base_end
  /\ rd_mem[rdr.base_end].last_seg = 0
  /\ rd_mem[rdr.base].last_seg # 0


(***************************************************************************)
(* C33: a run of the interrupt thread for a status without the threshold   *)
(* bit.  The bit is cleared only by the thread's own acknowledge, so a run *)
(* that is at no_thresh_irq with the bit clear has started without it.     *)
(***************************************************************************)
NoThreshRun == hd.pc = "no_thresh_irq" /\ ~hw.stat_thresh

\* C33: a run that finds the threshold bit clear goes to no_thresh_irq at
\* once with nothing handled, and the locked section of a run that has
\* handled nothing (this one, whether or not the bit is raised meanwhile) leaves
\* ring.requests and both read cursors as they are, writes nothing to the
\* processed counters, acknowledges the status and, when ring.requests > 0,
\* writes the threshold min(requests, EIP197_MAX_BATCH_SZ)
C33_NoThresholdNoResults ==
  [][/\ (hd.pc = "idle" /\ hd' # hd /\ ~hw.stat_thresh) =>
          /\ hd'.pc = "no_thresh_irq"
          /\ hd'.handled = 0 /\ hd'.tot_descs = 0 /\ hd'.nreq = 0
          /\ rdr' = rdr /\ cdr' = cdr /\ hw' = hw /\ rq' = rq
          /\ priv_ring' = priv_ring
     /\ (hd.pc = "no_thresh_irq" /\ hd.handled = 0 /\ hd' # hd) =>
          /\ hd'.pc = "idle"
          /\ priv_ring'.requests = priv_ring.requests
          /\ rdr'.read = rdr.read /\ cdr'.read = cdr.read
          /\ hw'.proc_pkt = hw.proc_pkt /\ hw'.proc_bytes = hw.proc_bytes
          /\ \A r \in Reqs : /\ rq'[r].ncomplete = rq[r].ncomplete
                             /\ rq'[r].nproc = rq[r].nproc
          /\ ~hw'.stat_thresh /\ ~hw'.stat_err
          /\ priv_ring.requests > 0 =>
               /\ hw'.thresh = IF priv_ring.requests < EIP197_MAX_BATCH_SZ
                                 THEN priv_ring.requests ELSE EIP197_MAX_BATCH_SZ
               /\ priv_ring'.busy
     /\ (NoThreshRun' /\ hd.pc # "idle") => NoThreshRun]_vars

\* the thread runs for an error interrupt, the threshold bit clear, with a
\* request in flight whose result is on the ring
C33_Witness ==
  /\ NoThreshRun /\ hd.stat_err /\ hd.handled = 0
  /\ priv_ring.requests > 0
  /\ PublishedUnprocessed > 0


(***************************************************************************)
(* ProcSpec: the err_finish block of safexcel_handle_result_descriptor     *)
(* for every count of handled packets up to MaxHandled, with as many       *)
(* descriptors or one more, the device's processed counters standing at    *)
(* these amounts.                                                          *)
(***************************************************************************)
ProcInit ==
  /\ cdr = init_cdr
  /\ rdr = init_rdr
  /\ cd_mem = init_cd_mem
  /\ rd_mem = init_rd_mem
  /\ \E h \in 0..MaxHandled : \E t \in h..(h + 1) :
       /\ hd = [init_hd EXCEPT !.pc = "err_finish", !.handled = h, !.tot_descs = t]
       /\ hw = [init_hw EXCEPT !.proc_pkt = h, !.proc_bytes = t * rd_offset]
  /\ last = [op |-> "init", ret |-> 0]
  /\ cdr_held = 0
  /\ rdr_held = 0
  /\ poll = init_poll
  /\ fresh = {}
  /\ priv_ring = init_ring
  /\ work_pending = FALSE
  /\ dq = init_dq
  /\ rq = [r \in Reqs |-> init_rq]
  /\ gh = [nenq |-> 0, nevents |-> 0, sent |-> <<>>, wait |-> <<>>]
  /\ hist = [cdr_slots |-> <<>>, rdr_slots |-> <<>>, cdr_adv |-> 0, rdr_adv |-> 0]
  /\ priv = init_priv(1, 0)
  /\ sel = init_sel

ProcNext == HandlerAck

ProcSpec == ProcInit /\ [][ProcNext]_vars

\* the PROC_COUNT writes of the pass that is at err_finish
AckWrites == proc_count_writes(hd.handled, hd.tot_descs)

\* C34: a pass with handled > 0 writes PROC_COUNT so that the packet counts
\* sum to handled, every write carries between 1 and 127 packets, and the
\* descriptor amount tot_descs * rd_offset is carried by one write, the
\* others carrying none; the device's counters go down by these amounts
C34_ProcCountWrites ==
  [][(hd.pc = "err_finish" /\ hd' # hd /\ hd.handled > 0) =>
       /\ \A k \in 1..Len(AckWrites) :
            /\ AckWrites[k].pkt >= 1
            /\ AckWrites[k].pkt <= EIP197_xDR_PROC_xD_PKT_MASK
            /\ AckWrites[k].bytes = IF k = Len(AckWrites)
                                      THEN hd.tot_descs * rd_offset ELSE 0
       /\ SumTo([k \in 1..Len(AckWrites) |-> AckWrites[k].pkt], Len(AckWrites))
            = hd.handled
       /\ hw'.proc_pkt = hw.proc_pkt - hd.handled
       /\ hw'.proc_bytes = hw.proc_bytes - hd.tot_descs * rd_offset]_vars

\* a pass has acknowledged twice the mask's worth of packets, which takes
\* two writes, and the device's counters are back at zero
C34_Witness ==
  /\ hd.pc = "no_thresh_irq"
  /\ hd.handled = 2 * EIP197_xDR_PROC_xD_PKT_MASK
  /\ hw.proc_pkt = 0 /\ hw.proc_bytes = 0


(***************************************************************************)
(* C35: the result of an invalidation, for a session not being torn down.  *)
(***************************************************************************)
\* the interrupt thread takes the written result of the invalidation sent
\* for the request at the head of the result ring
IsInvResult ==
  /\ IsHandlerResult /\ ~HeadNotWritten
  /\ rq[HeadReq].inflight = "inv" /\ rq[HeadReq].kind # "exit_inv"

InQueue(r) == \E k \in DOMAIN priv_ring.queue.list : priv_ring.queue.list[k] = r

\* C35: when the result of a request's invalidation is processed and the
\* session is not torn down, the request is either in the admission queue
\* afterwards, not completed and no longer flagged, or, the queue having
\* rejected it, its completion callback has been invoked with the error
C35_ReadmittedOrCompleted ==
  [][\A r \in Reqs : (IsInvResult /\ r = HeadReq) =>
       \/ /\ InQueue(r)'
          /\ rq'[r].ncomplete = rq[r].ncomplete
          /\ ~rq'[r].needs_inv
       \/ /\ ~InQueue(r)'
          /\ rq'[r].ncomplete = rq[r].ncomplete + 1
          /\ rq'[r].status = -ENOSPC]_vars


(***************************************************************************)
(* CachedSpec: Spec with requests whose send finds all of its input        *)
(* cached (safexcel_ahash_send_req: *commands = 0, *results = 0, return 0) *)
(* admitted as well.                                                       *)
(***************************************************************************)
EnqueueCached ==
  /\ gh.nenq < NReq
  /\ \E mb \in BOOLEAN :
       LET r == gh.nenq + 1
           e == crypto_enqueue_request(priv_ring.queue, r, mb)
       IN
       /\ priv_ring' = [priv_ring EXCEPT !.queue = e.queue]
       /\ rq' = [rq EXCEPT ![r] =
                   IF e.ret = -ENOSPC
                     THEN [init_rq EXCEPT !.kind = "rejected"]
                     ELSE [init_rq EXCEPT !.kind = "req",
                                          !.all_cached = TRUE,
                                          !.nbusy = IF e.ret = -EBUSY THEN 1 ELSE 0,
                                          !.accepted = TRUE]]
       /\ gh' = [gh EXCEPT !.nenq = r,
                           !.wait = IF e.ret # -ENOSPC THEN Append(@, r) ELSE @]
  /\ work_pending' = TRUE
  /\ UNCHANGED <<selVars, ringVars, memVars, hw, primVars, ownVars, dq, hd>>

CachedNext ==
  \/ Next
  \/ EnqueueCached

CachedSpec == Init /\ [][CachedNext]_vars

\* the dequeue work calls send for a request all of whose input is cached
IsCachedSend ==
  /\ dq.pc = "handle_req" /\ dq' # dq
  /\ rq[dq.req].all_cached /\ ~rq[dq.req].needs_inv

\* C36: a send that succeeds with zero commands and zero results adds
\* nothing to the run's request and descriptor counts, places nothing on
\* the rings, does not mark the request in flight, notifies the backlog
\* target if there is one, and the run goes on to the next queued request
C36_CachedSendNotInFlight ==
  [][IsCachedSend =>
       /\ last'.ret = 0
       /\ dq'.nreq = dq.nreq /\ dq'.cdesc = dq.cdesc /\ dq'.rdesc = dq.rdesc
       /\ cdr' = cdr /\ rdr' = rdr /\ cd_mem' = cd_mem /\ rd_mem' = rd_mem
       /\ priv_ring'.rdr_req = priv_ring.rdr_req
       /\ priv_ring'.requests = priv_ring.requests
       /\ hw' = hw
       /\ \A r \in Reqs :
            /\ rq'[r].nsent = rq[r].nsent
            /\ rq'[r].inflight = rq[r].inflight
            /\ rq'[r].nnotify = rq[r].nnotify + (IF r = dq.backlog THEN 1 ELSE 0)
       /\ dq'.pc = "dequeue"
       /\ priv_ring'.queue = priv_ring.queue]_vars

\* a send has only cached its request's input, the backlog target has been
\* notified, nothing is counted, and the next request waits in the queue
\* for the same run
C36_Witness ==
  /\ dq.pc = "dequeue" /\ last.op = "send" /\ last.ret = 0
  /\ rq[last.req].all_cached /\ rq[last.req].nsent = 0
  /\ dq.nreq = 0 /\ dq.cdesc = 0 /\ dq.rdesc = 0
  /\ dq.backlog # NULL /\ rq[dq.backlog].nnotify = 1
  /\ priv_ring.queue.list = <<dq.backlog>>


(***************************************************************************)
(* C37: the read cursors against the descriptors placed.                   *)
(***************************************************************************)
\* command descriptors placed for requests in flight
CdescsInFlight ==
  SumTo([r \in DOMAIN rq |-> IF rq[r].inflight # "none" THEN CdescsOf(r) ELSE 0],
        Cardinality(DOMAIN rq))

\* result descriptors placed for requests in flight: one each
RdescsInFlight == Cardinality({r \in DOMAIN rq : rq[r].inflight # "none"})

\* C37: the slots between each ring's read and write cursors are at every
\* moment those of the descriptors placed for the requests in flight, so
\* no read cursor passes its write cursor; a pass of the interrupt thread
\* that takes a result moves the CDR read cursor over exactly the command
\* descriptors of the request at the head and the RDR read cursor over its
\* one result descriptor, and a pass that takes none moves neither
C37_ReadNeverOvertakesWrite ==
  [][/\ Occupied(cdr', cd_offset) = CdescsInFlight'
     /\ Occupied(rdr', rd_offset) = RdescsInFlight'
     /\ \A r \in DOMAIN rq : (IsHandlerResult /\ r = HeadReq) =>
          IF HeadNotWritten
            THEN cdr'.read = cdr.read /\ rdr'.read = rdr.read
            ELSE /\ rq[r].inflight # "none"
                 /\ CdescsOf(r) <= Occupied(cdr, cd_offset)
                 /\ SlotsBetween(cdr.read, cdr'.read, cd_offset) = CdescsOf(r)
                 /\ Occupied(cdr', cd_offset) = Occupied(cdr, cd_offset) - CdescsOf(r)
                 /\ SlotsBetween(rdr.read, rdr'.read, rd_offset) = 1
                 /\ Occupied(rdr', rd_offset) = Occupied(rdr, rd_offset) - 1
                 /\ cdr'.write = cdr.write /\ rdr'.write = rdr.write
     /\ ~IsHandlerResult => (cdr'.read = cdr.read /\ rdr'.read = rdr.read)]_vars

\* the result of a request that placed two command descriptors has been
\* taken: the CDR read cursor has moved over both, the RDR read cursor
\* over one slot, and both rings are empty again
C37_Witness ==
  /\ hd.pc = "scan" /\ hd.tot_descs = 1
  /\ \E r \in DOMAIN rq : /\ rq[r].cache_len + rq[r].nsg = 2
                     /\ rq[r].nproc = 1 /\ rq[r].ncomplete = 1
                     /\ rq[r].inflight = "none" /\ ~rq[r].needs_inv
  /\ cdr.read = cdr.base + 2 * cd_offset /\ cdr.write = cdr.read
  /\ rdr.read = rdr.base + rd_offset /\ rdr.write = rdr.read


(***************************************************************************)
(* C38: where the magic value can be found in the result ring.             *)
(***************************************************************************)
\* result descriptors published to the device and not consumed: those the
\* device has gone past since the read cursor, and those it still has to do
RdPublished == SlotsBetween(rdr.read, hw.rd_ptr, rd_offset) + hw.rd_prep \div rd_offset

PublishedWindow == {WalkSlot(k) : k \in 0..(RdPublished - 1)}

\* C38: every result slot that holds the magic value lies in the window of
\* the result descriptors published and not yet consumed, from the zero-filled
\* ring on and over every lap; so the slot at the read cursor holds the
\* magic value only if it is the result of the oldest request in flight
C38_NoStaleMagic ==
  /\ RdPublished <= ring_entries - 1
  /\ \A a \in RdSlots : rd_mem[a].own = EIP197_OWNERSHIP_MAGIC => a \in PublishedWindow
  /\ ~HeadNotWritten => (gh.sent # <<>> /\ HeadReq = Head(gh.sent))

\* the second lap: the last request holds the first slot of the ring again,
\* published and not written, its marker as the consumer of the first lap
\* left it, while an earlier result waits, written, in the window
C38_Witness ==
  /\ rq[ScenReqs].inflight = "req" /\ hw.rd_prep > 0
  /\ priv_ring.rdr_req[0] = ScenReqs
  /\ rd_mem[rdr.base].own = NOT32(EIP197_OWNERSHIP_MAGIC)
  /\ rdr.base \in PublishedWindow
  /\ \E a \in RdSlots : rd_mem[a].own = EIP197_OWNERSHIP_MAGIC


(***************************************************************************)
(* C39: how long safexcel_rdr_scan_next and the ownership poll run.        *)
(***************************************************************************)
\* the slots whose marker the loop of safexcel_rdr_scan_next reads, from the
\* slot rdesc on, n read before; counted up to one more than the ring has
RECURSIVE rdr_scan_visits(_, _, _, _)
rdr_scan_visits(ring, mem, rdesc, n) ==
  IF n > ring_entries
    THEN n
    ELSE IF mem[rdesc].own = EIP197_OWNERSHIP_MAGIC /\ mem[rdesc].last_seg = 0
           THEN rdr_scan_visits(ring, mem, rdr_advance(ring, rdesc), n + 1)
           ELSE n + 1

\* the reads of *own by the loop of safexcel_rdr_next_rptr: the word is read
\* when --cnt is not zero
RECURSIVE own_poll_reads(_, _)
own_poll_reads(cnt, own) ==
  LET c == own_poll_cond(cnt, own) IN
  (IF c.cnt # 0 THEN 1 ELSE 0) + (IF c.again THEN own_poll_reads(c.cnt, own) ELSE 0)

\* C39: in every reachable state a slot of the result ring has a marker
\* that is not the magic value, the walk of safexcel_rdr_scan_next from the
\* read cursor reads at most ring_entries markers, and the ownership poll
\* on the slot at the read cursor reads the marker at most
\* EIP197_OWN_POLL_COUNT times
C39_ScanAndPollTerminate ==
  /\ \E a \in RdSlots : rd_mem[a].own # EIP197_OWNERSHIP_MAGIC
  /\ rdr_scan_visits(rdr, rd_mem, rdr.read, 0) <= ring_entries
  /\ own_poll_reads(EIP197_OWN_POLL_COUNT, rd_mem[rdr.read].own) <= EIP197_OWN_POLL_COUNT
  /\ own_poll(EIP197_OWN_POLL_COUNT, rd_mem[rdr.read].own) >= 0

\* the interrupt thread is about to scan a ring in which every slot but one
\* holds a written result
C39_Witness ==
  /\ hd.pc = "scan"
  /\ Cardinality({a \in RdSlots : rd_mem[a].own = EIP197_OWNERSHIP_MAGIC}) = ring_entries - 1
  /\ safexcel_rdr_scan_next(rdr, rd_mem)


(***************************************************************************)
(* InvSpec: one session (tfm) of a device with or without the              *)
(* EIP197_NEED_INV feature: setkey, safexcel_ahash_enqueue, the teardown   *)
(* of the session and safexcel_handle_result on the requests submitted,    *)
(* in any order.  priv holds the feature flag and the session's context    *)
(* (ctx->base.ctxr allocated, ctx->base.needs_inv, ctx->base.exit_inv),    *)
(* rq the requests' needs_inv.                                             *)
(***************************************************************************)
init_inv_ctx(need_inv) ==
  [need_inv |-> need_inv, ctxr |-> FALSE, needs_inv |-> FALSE, exit_inv |-> FALSE,
   torn |-> FALSE, nsetkey |-> 0, rekeyed |-> FALSE, bug |-> FALSE]

init_inv_rq ==
  [kind |-> "none", needs_inv |-> FALSE, accepted |-> FALSE, ncomplete |-> 0,
   after_rekey |-> FALSE]

InvInit ==
  /\ cdr = init_cdr
  /\ rdr = init_rdr
  /\ cd_mem = init_cd_mem
  /\ rd_mem = init_rd_mem
  /\ hw = init_hw
  /\ last = [op |-> "init", ret |-> 0]
  /\ cdr_held = 0
  /\ rdr_held = 0
  /\ poll = init_poll
  /\ fresh = {}
  /\ priv_ring = init_ring
  /\ work_pending = FALSE
  /\ dq = init_dq
  /\ hd = init_hd
  /\ rq = [r \in Reqs |-> init_inv_rq]
  /\ gh = [nenq |-> 0, nevents |-> 0, sent |-> <<>>, wait |-> <<>>]
  /\ hist = [cdr_slots |-> <<>>, rdr_slots |-> <<>>, cdr_adv |-> 0, rdr_adv |-> 0]
  /\ \E need_inv \in BOOLEAN : priv = init_inv_ctx(need_inv)
  /\ sel = init_sel

InvFrame ==
  UNCHANGED <<ringVars, memVars, hw, last, cdr_held, rdr_held, hist, ownVars,
              priv_ring, work_pending, dq, hd, sel>>

\* mutant: the flag is set whatever the device's features
hmac_alg_setkey_nofeat(ctx, changed) ==
  [ctx EXCEPT !.needs_inv = IF ctx.ctxr /\ changed THEN TRUE ELSE @,
              !.rekeyed = @ \/ (ctx.ctxr /\ changed),
              !.nsetkey = @ + 1]

\* safexcel_hmac_alg_setkey: changed says that the new key's ipad or opad
\* differs from the one in the context
safexcel_hmac_alg_setkey(ctx, changed) ==
  [ctx EXCEPT !.needs_inv = IF ctx.need_inv /\ ctx.ctxr /\ changed THEN TRUE ELSE @,
              !.rekeyed = @ \/ (ctx.ctxr /\ changed),
              !.nsetkey = @ + 1]

\* safexcel_ahash_enqueue up to the choice of the ring: continued is
\* (processed # 0 and digest = PRECOMPUTED), differs what
\* safexcel_ahash_needs_inv_get returns, alloc_ok whether dma_pool_zalloc
\* succeeds
inv_ahash_enqueue(ctx, continued, differs, alloc_ok) ==
  IF ctx.ctxr
    THEN LET c1 == IF ctx.need_inv /\ ~ctx.needs_inv /\ continued
                     THEN [ctx EXCEPT !.needs_inv = differs]
                     ELSE ctx
         IN IF c1.needs_inv
              THEN [ret |-> 0, ctx |-> [c1 EXCEPT !.needs_inv = FALSE], needs_inv |-> TRUE]
              ELSE [ret |-> 0, ctx |-> c1, needs_inv |-> FALSE]
    ELSE IF alloc_ok
           THEN [ret |-> 0, ctx |-> [ctx EXCEPT !.ctxr = TRUE], needs_inv |-> FALSE]
           ELSE [ret |-> -ENOMEM, ctx |-> ctx, needs_inv |-> FALSE]

InvSetkey ==
  /\ ~priv.torn
  /\ priv.nsetkey < MaxSetkey
  /\ \E changed \in BOOLEAN : priv' = safexcel_hmac_alg_setkey(priv, changed)
  /\ UNCHANGED <<rq, gh>>
  /\ InvFrame

InvEnqueue ==
  /\ ~priv.torn
  /\ gh.nenq < NReq
  /\ \E continued \in BOOLEAN, differs \in BOOLEAN, alloc_ok \in BOOLEAN :
       LET r == gh.nenq + 1
           e == inv_ahash_enqueue(priv, continued, differs, alloc_ok)
       IN
       /\ priv' = e.ctx
       /\ rq' = [rq EXCEPT ![r] =
                   IF e.ret # 0
                     THEN [init_inv_rq EXCEPT !.kind = "rejected"]
                     ELSE [init_inv_rq EXCEPT !.kind = "req",
                                              !.needs_inv = e.needs_inv,
                                              !.accepted = TRUE,
                                              !.after_rekey = priv.rekeyed]]
       /\ gh' = [gh EXCEPT !.nenq = r]
  /\ InvFrame

\* safexcel_ahash_cra_exit, with safexcel_ahash_exit_inv
InvCraExit ==
  /\ ~priv.torn
  /\ (priv.ctxr /\ priv.need_inv) => gh.nenq < NReq
  /\ IF ~priv.ctxr
       THEN /\ priv' = [priv EXCEPT !.torn = TRUE]
            /\ UNCHANGED <<rq, gh>>
       ELSE IF priv.need_inv
         THEN LET r == gh.nenq + 1 IN
              /\ priv' = [priv EXCEPT !.torn = TRUE, !.exit_inv = TRUE]
              /\ rq' = [rq EXCEPT ![r] = [init_inv_rq EXCEPT !.kind = "exit_inv",
                                                             !.needs_inv = TRUE,
                                                             !.accepted = TRUE]]
              /\ gh' = [gh EXCEPT !.nenq = r]
         ELSE /\ priv' = [priv EXCEPT !.torn = TRUE, !.ctxr = FALSE]
              /\ UNCHANGED <<rq, gh>>
  /\ InvFrame

\* safexcel_handle_result on a request submitted and not completed: the
\* BUG_ON, then the flag is cleared; the result is there or not
InvHandleResult ==
  /\ \E r \in Reqs : \E ready \in BOOLEAN :
       /\ rq[r].accepted /\ rq[r].ncomplete = 0
       /\ priv' = [priv EXCEPT !.bug = @ \/ (~priv.need_inv /\ rq[r].needs_inv),
                               !.ctxr = IF ready /\ rq[r].needs_inv /\ priv.exit_inv
                                          THEN FALSE ELSE @]
       /\ rq' = [rq EXCEPT ![r].needs_inv = FALSE,
                           ![r].ncomplete =
                             IF ready /\ (~rq[r].needs_inv \/ priv.exit_inv)
                               THEN @ + 1 ELSE @]
  /\ UNCHANGED gh
  /\ InvFrame

InvNext ==
  \/ InvSetkey
  \/ InvEnqueue
  \/ InvCraExit
  \/ InvHandleResult

InvSpec == InvInit /\ [][InvNext]_vars

\* C40: the assertion of safexcel_handle_result never fails: a request has
\* needs_inv set only on a device with EIP197_NEED_INV, and so has the
\* session's context, whatever the order of setkey, enqueue and teardown
C40_NeedsInvOnlyWithFeature ==
  /\ ~priv.bug
  /\ priv.needs_inv => priv.need_inv
  /\ \A r \in Reqs : rq[r].needs_inv => priv.need_inv

\* on a device without the feature the key of a session with a context
\* record was changed, a request submitted after that has passed the
\* assertion and been completed, and the session has been torn down
C40_Witness ==
  /\ ~priv.need_inv /\ priv.rekeyed /\ priv.torn
  /\ \E r \in Reqs : rq[r].after_rekey /\ rq[r].ncomplete = 1

=============================================================================
